---- MODULE Spec2Model ----
(***************************************************************************)
(* Pythagorus' Polyrhythm Phactory: the scale model (ScaleSystem.ts), the  *)
(* voice engine (AudioEngine.ts / SynthEngine.ts) and the rotational       *)
(* scheduler of the App component (crossing-detector version).             *)
(*                                                                         *)
(* Units: time in milliseconds, angles in millidegrees (360000 = 360 deg), *)
(* gain in 1/10000 of full scale, sustain level in percent.                *)
(***************************************************************************)
EXTENDS Integers, Sequences, FiniteSets, TLC

VARIABLES
    \* ---- App state (React useState) ----
    polygons,            \* sequence of polygon records
    selectedPolygon,     \* <<>> (null) or <<polygon record>>
    selectedScale,
    rootNote,
    playhead,            \* [angle, isPlaying, rpm]
    \* ---- App refs and the animation effect's closure ----
    rpmRef,
    isManualJumpRef,
    lastTriggerTimeRef,  \* function: noteId key -> last trigger time
    session,             \* <<>> (no animation running) or <<[startTime, lastAngle]>>
    \* ---- clocks and timers ----
    now,                 \* performance.now() / audio clock, ms
    timers,              \* set of pending setTimeout callbacks
    \* ---- AudioEngine ----
    audioReady,          \* context and masterGain exist
    activeOscillators,   \* Map noteId -> OscillatorNode: the set of its keys
    activeGains,         \* Map noteId -> GainNode: the set of its keys
    audioGraph,          \* the host's nodes: noteId -> [startAt, stopAt, events, ...]
    nextNoteId,          \* stands for the unique `${note}_${Date.now()}_${Math.random()}`
    \* ---- observation of the last step ----
    emitted,             \* sequence of triggers submitted by the last frame
    lastOp,              \* name and outcome of the last operation
    ghost,               \* rotation bookkeeping used to state the scheduling claims
    edits,               \* number of structural / note edits made so far (bounded)
    \* ---- pure-function harness ----
    fnIn,
    fnOut

appVars    == <<polygons, selectedPolygon, selectedScale, rootNote, playhead>>
schedVars  == <<rpmRef, isManualJumpRef, lastTriggerTimeRef, session>>
timeVars   == <<now, timers>>
engineVars == <<audioReady, activeOscillators, activeGains, audioGraph, nextNoteId>>
obsVars    == <<emitted, lastOp, ghost, edits>>
fnVars     == <<fnIn, fnOut>>
vars == <<appVars, schedVars, timeVars, engineVars, obsVars, fnVars>>

-----------------------------------------------------------------------------
(* Generic helpers for JavaScript values *)

Null == "null"

\* Array.prototype.indexOf: 0-based position of the first match, -1 if absent
IndexOf(seq, x) ==
    IF \E i \in 1..Len(seq) : seq[i] = x
    THEN (CHOOSE i \in 1..Len(seq) : seq[i] = x /\ \A j \in 1..(i-1) : seq[j] # x) - 1
    ELSE -1

Includes(seq, x) == \E i \in 1..Len(seq) : seq[i] = x

Abs(x) == IF x < 0 THEN -x ELSE x

\* JavaScript % (remainder takes the sign of the dividend)
JsRem(a, n) == IF a >= 0 THEN a % n ELSE -((-a) % n)

Range(f) == {f[x] : x \in DOMAIN f}

-----------------------------------------------------------------------------
(* Scale model: ScaleSystem.ts *)

noteOrder == <<"C", "C#", "D", "D#", "E", "F", "F#", "G", "G#", "A", "A#", "B">>

Notes == Range(noteOrder)

ScaleNames == {"Major", "Minor", "Pentatonic", "Dorian", "Mixolydian"}

\* scaleIntervals[scaleName] || scaleIntervals.Major
scaleIntervals(scaleName) ==
    CASE scaleName = "Major"      -> <<0, 2, 4, 5, 7, 9, 11>>
      [] scaleName = "Minor"      -> <<0, 2, 3, 5, 7, 8, 10>>
      [] scaleName = "Pentatonic" -> <<0, 2, 4, 7, 9>>
      [] scaleName = "Dorian"     -> <<0, 2, 3, 5, 7, 9, 10>>
      [] scaleName = "Mixolydian" -> <<0, 2, 4, 5, 7, 9, 10>>
      [] OTHER                    -> <<0, 2, 4, 5, 7, 9, 11>>

\* noteOrder[i] for a 0-based i; an out-of-range read gives undefined
NoteAt(i) == IF i >= 0 /\ i < Len(noteOrder) THEN noteOrder[i + 1] ELSE "undefined"

\* Mutant: the wraparound modulo is dropped
getScaleNotesNoWrap(scaleName, root) ==
    LET rootIndex == IndexOf(noteOrder, root)
        intervals == scaleIntervals(scaleName)
    IN  [k \in 1..Len(intervals) |-> NoteAt(rootIndex + intervals[k])]

\* scaleIntervals is an object literal: a name that Object.prototype defines
\* reads an inherited, truthy value that has no map method
InheritedKeys == {"constructor", "toString", "valueOf", "hasOwnProperty", "__proto__"}

\* The outcome of a call that raised a TypeError
TypeError == <<"TypeError">>

getScaleNotes(scaleName, root) ==
    LET rootIndex == IndexOf(noteOrder, root)
        intervals == scaleIntervals(scaleName)
    IN  IF scaleName \in InheritedKeys THEN TypeError
        ELSE [k \in 1..Len(intervals) |-> NoteAt(JsRem(rootIndex + intervals[k], 12))]

scaleDegreeColors ==
    <<"#ff0000", "#ff4000", "#ff8000", "#ffbf00", "#ffff00", "#bfff00",
      "#80ff00", "#40ff00", "#00ff40", "#00ff80", "#00ffbf", "#00ffff">>

\* Mutant: the colour is chosen by the raw pitch class
getNoteColorByPitchClass(note, polygonColor, scale, root) ==
    IF note = Null \/ note = "" THEN "transparent"
    ELSE LET scaleNotes == getScaleNotes(scale, root)
         IN  IF scaleNotes = TypeError THEN "TypeError"
             ELSE IF IndexOf(scaleNotes, note) = -1 THEN polygonColor
             ELSE scaleDegreeColors[IndexOf(noteOrder, note) + 1]

getNoteColor(note, polygonColor, scale, root) ==
    IF note = Null \/ note = "" THEN "transparent"
    ELSE LET scaleNotes  == getScaleNotes(scale, root)
             scaleDegree == IndexOf(scaleNotes, note)
         IN  IF scaleNotes = TypeError THEN "TypeError"
             ELSE IF scaleDegree = -1 THEN polygonColor
             ELSE IF scaleDegree < Len(scaleDegreeColors)
                  THEN scaleDegreeColors[scaleDegree + 1]
                  ELSE polygonColor

\* Mutant: <= instead of <, the last of several equally near notes wins
RECURSIVE ClosestLoopLastWins(_, _, _, _, _)
ClosestLoopLastWins(newScaleIndices, k, currentIndex, closestIndex, minDistance) ==
    IF k > Len(newScaleIndices) THEN closestIndex
    ELSE LET scaleIndex == newScaleIndices[k]
             distance   == Abs(currentIndex - scaleIndex)
         IN  IF distance <= minDistance
             THEN ClosestLoopLastWins(newScaleIndices, k + 1, currentIndex, scaleIndex, distance)
             ELSE ClosestLoopLastWins(newScaleIndices, k + 1, currentIndex, closestIndex, minDistance)

\* The for-loop of the closest-note search: strict < keeps the first minimum
RECURSIVE ClosestLoop(_, _, _, _, _)
ClosestLoop(newScaleIndices, k, currentIndex, closestIndex, minDistance) ==
    IF k > Len(newScaleIndices) THEN closestIndex
    ELSE LET scaleIndex == newScaleIndices[k]
             distance   == Abs(currentIndex - scaleIndex)
         IN  IF distance < minDistance
             THEN ClosestLoop(newScaleIndices, k + 1, currentIndex, scaleIndex, distance)
             ELSE ClosestLoop(newScaleIndices, k + 1, currentIndex, closestIndex, minDistance)

\* Mutant: the search result is not the nearest member but the stored pitch's
\* upper chromatic neighbour
ClosestNoteNeighbour(note, newScaleNotes) ==
    NoteAt((IndexOf(noteOrder, note) + 1) % 12)

ClosestNote(note, newScaleNotes) ==
    LET currentIndex    == IndexOf(noteOrder, note)
        newScaleIndices == [k \in 1..Len(newScaleNotes) |-> IndexOf(noteOrder, newScaleNotes[k])]
        closestIndex    == newScaleIndices[1]
        minDistance     == Abs(currentIndex - closestIndex)
    IN  NoteAt(ClosestLoop(newScaleIndices, 1, currentIndex, closestIndex, minDistance))

\* Mutant: every non-empty pitch is snapped to the root of the new scale
RemapNoteToRoot(note, newScaleNotes) ==
    IF note = Null THEN Null ELSE newScaleNotes[1]

\* The callback of polygon.notes.map(...)
RemapNote(note, newScaleNotes) ==
    IF note = Null THEN Null
    ELSE IF Includes(newScaleNotes, note) THEN note
    ELSE ClosestNote(note, newScaleNotes)

RemapNotes(notes, newScaleNotes) ==
    [i \in 1..Len(notes) |-> RemapNote(notes[i], newScaleNotes)]

updatePolygonNotesForNewScale(polys, selPoly, scale, root) ==
    LET newScaleNotes == getScaleNotes(scale, root)
    IN  [updatedPolygons |->
            [p \in 1..Len(polys) |->
                [polys[p] EXCEPT !.notes = RemapNotes(polys[p].notes, newScaleNotes)]],
         updatedSelectedPolygon |->
            IF selPoly = <<>> THEN <<>>
            ELSE <<[selPoly[1] EXCEPT !.notes = RemapNotes(selPoly[1].notes, newScaleNotes)]>>]

-----------------------------------------------------------------------------
(* Voice engine: AudioEngine.ts (SynthEngine.ts holds the same envelope code) *)

\* noteFrequencies, in 1/100 Hz
noteFrequencies ==
    [n \in Notes |->
        CASE n = "C"  -> 26163 [] n = "C#" -> 27718 [] n = "D"  -> 29366
          [] n = "D#" -> 31113 [] n = "E"  -> 32963 [] n = "F"  -> 34923
          [] n = "F#" -> 36999 [] n = "G"  -> 39200 [] n = "G#" -> 41530
          [] n = "A"  -> 44000 [] n = "A#" -> 46616 [] n = "B"  -> 49388]

\* this.noteFrequencies[noteName]; 0 stands for undefined
FrequencyOf(noteName) == IF noteName \in DOMAIN noteFrequencies THEN noteFrequencies[noteName] ELSE 0

\* x || d
OrDefault(x, d) == IF x = 0 THEN d ELSE x

SetValueAtTime(v, t)          == [op |-> "setValueAtTime", value |-> v, time |-> t]
LinearRampToValueAtTime(v, t) == [op |-> "linearRampToValueAtTime", value |-> v, time |-> t]

\* The gain events of playNoteWithPolygonSynth, in the order they are submitted
PolygonEnvelope(T, duration, polygonSettings, volume) ==
    LET attack       == OrDefault(polygonSettings.attack, 10)
        decay        == OrDefault(polygonSettings.decay, 100)
        sustain      == OrDefault(polygonSettings.sustain, 80)
        release      == OrDefault(polygonSettings.release, 300)
        sustainStart == T + attack + decay
        releaseStart == T + duration - release
        head == << SetValueAtTime(0, T),
                   LinearRampToValueAtTime(volume, T + attack),
                   LinearRampToValueAtTime((volume * sustain) \div 100, T + attack + decay) >>
    IN  IF releaseStart > sustainStart
        THEN head \o << SetValueAtTime((volume * sustain) \div 100, sustainStart),
                        LinearRampToValueAtTime(0, T + duration) >>
        ELSE head \o << LinearRampToValueAtTime(0, T + duration) >>

\* Default synth settings of playNote, volume overridden by the caller
BasicSynthSettings(volume) ==
    [attack |-> 100, decay |-> 200, sustain |-> 70, release |-> 300, volume |-> volume]

\* The gain events of playNote
BasicEnvelope(T, duration, synthSettings) ==
    LET attack       == synthSettings.attack
        decayTime    == synthSettings.decay
        sustainLevel == synthSettings.sustain
    IN  << SetValueAtTime(0, T),
           LinearRampToValueAtTime(synthSettings.volume, T + attack),
           LinearRampToValueAtTime((synthSettings.volume * sustainLevel) \div 100, T + attack + decayTime),
           SetValueAtTime((synthSettings.volume * sustainLevel) \div 100, T + attack + decayTime),
           LinearRampToValueAtTime(0, T + duration) >>

\* The engine's fields as one value, so that calls can be chained
\* fault: the step of the next voice construction at which the host raises an
\* exception ("none": no step does); said: what the calls wrote to the console
Engine ==
    [ready |-> audioReady, oscs |-> activeOscillators, gains |-> activeGains,
     graph |-> audioGraph, nextId |-> nextNoteId, timers |-> timers,
     fault |-> "none", said |-> <<>>]

\* console.warn / console.error
Say(E, level, message) == [E EXCEPT !.said = Append(@, <<level, message>>)]

CleanupTimer(noteId, due) == [kind |-> "cleanup", id |-> noteId, due |-> due]
JumpTimer(due)            == [kind |-> "jump", id |-> 0, due |-> due]

\* Mutant: the cleanup timer is set for half the delay
RegisterEarlyCleanup(E, node, cleanupDelay, T) ==
    [E EXCEPT !.graph  = (E.nextId :> node) @@ E.graph,
              !.oscs   = E.oscs \cup {E.nextId},
              !.gains  = E.gains \cup {E.nextId},
              !.timers = E.timers \cup {CleanupTimer(E.nextId, T + (cleanupDelay \div 2))},
              !.nextId = E.nextId + 1]

\* oscillator.start / stop, registry entries and the cleanup timer of one voice
Register(E, node, cleanupDelay, T) ==
    [E EXCEPT !.graph  = (E.nextId :> node) @@ E.graph,
              !.oscs   = E.oscs \cup {E.nextId},
              !.gains  = E.gains \cup {E.nextId},
              !.timers = E.timers \cup {CleanupTimer(E.nextId, T + cleanupDelay)},
              !.nextId = E.nextId + 1]

\* The steps of the try block that can raise: those before oscillator.start,
\* which call into the host with caller-supplied values.  start(now) and
\* stop(when) get times that the envelope calls before them were given too,
\* Map.set and setTimeout do not raise.
FaultSteps == {"none", "createOscillator", "setValueAtTime"}

\* Mutant: the oscillator is started before its envelope is scheduled, so a
\* raising envelope call leaves a started oscillator that nothing refers to
ConstructStartFirst(E, node, cleanupDelay, T, message) ==
    IF E.fault = "none" THEN Register(E, node, cleanupDelay, T)
    ELSE IF E.fault = "setValueAtTime"
         THEN Say([E EXCEPT !.fault = "none", !.graph = (E.nextId :> node) @@ E.graph,
                            !.nextId = E.nextId + 1], "error", message)
         ELSE Say([E EXCEPT !.fault = "none"], "error", message)

\* try { create, connect, schedule, start, stop, register, setTimeout }
\* catch (error) { console.error(message, error) }
Construct(E, node, cleanupDelay, T, message) ==
    IF E.fault = "none" THEN Register(E, node, cleanupDelay, T)
    ELSE Say([E EXCEPT !.fault = "none"], "error", message)

\* Mutant: no lookup of the pitch name; the oscillator gets whatever the table gave
playNoteAnyPitch(E, T, noteName, duration, volume) ==
    IF ~E.ready THEN Say(E, "warn", "Audio engine not initialized")
    ELSE LET synthSettings == BasicSynthSettings(volume)
             node == [frequency |-> FrequencyOf(noteName), method |-> "playNote",
                      T |-> T, duration |-> duration,
                      attack |-> synthSettings.attack, decay |-> synthSettings.decay,
                      release |-> synthSettings.release,
                      startAt |-> T, stopAt |-> T + duration,
                      events |-> BasicEnvelope(T, duration, synthSettings)]
         IN  Construct(E, node, duration + synthSettings.attack + 100, T, "Error playing note")

\* AudioEngine.playNote
playNote(E, T, noteName, duration, volume) ==
    IF ~E.ready THEN Say(E, "warn", "Audio engine not initialized")
    ELSE IF FrequencyOf(noteName) = 0 THEN Say(E, "warn", "Unknown note")
    ELSE LET synthSettings == BasicSynthSettings(volume)
             node == [frequency |-> FrequencyOf(noteName), method |-> "playNote",
                      T |-> T, duration |-> duration,
                      attack |-> synthSettings.attack, decay |-> synthSettings.decay,
                      release |-> synthSettings.release,
                      startAt |-> T, stopAt |-> T + duration,
                      events |-> BasicEnvelope(T, duration, synthSettings)]
         IN  Construct(E, node, duration + synthSettings.attack + 100, T, "Error playing note")

\* AudioEngine.playNoteWithPolygonSynth
playNoteWithPolygonSynth(E, T, noteName, duration, polygonSettings, volume) ==
    IF ~E.ready THEN Say(E, "warn", "Audio engine not initialized")
    ELSE IF ~polygonSettings.enabled THEN playNote(E, T, noteName, duration, volume)
    ELSE IF FrequencyOf(noteName) = 0 THEN Say(E, "warn", "Unknown note")
    ELSE LET attack == OrDefault(polygonSettings.attack, 10)
             node == [frequency |-> FrequencyOf(noteName), method |-> "playNoteWithPolygonSynth",
                      T |-> T, duration |-> duration,
                      attack |-> attack, decay |-> OrDefault(polygonSettings.decay, 100),
                      release |-> OrDefault(polygonSettings.release, 300),
                      startAt |-> T, stopAt |-> T + duration + 100,
                      events |-> PolygonEnvelope(T, duration, polygonSettings, volume)]
         IN  Construct(E, node, duration + attack + 100, T,
                       "Error playing note with polygon synth")

\* SynthEngine.playNoteWithPolygonSynth (its context is a constructor argument)
SynthEngine_playNoteWithPolygonSynth(E, T, noteName, duration, polygonSettings, volume) ==
    IF ~polygonSettings.enabled THEN E
    ELSE IF FrequencyOf(noteName) = 0 THEN Say(E, "warn", "Unknown note")
    ELSE LET attack == OrDefault(polygonSettings.attack, 10)
             node == [frequency |-> FrequencyOf(noteName),
                      method |-> "SynthEngine.playNoteWithPolygonSynth",
                      T |-> T, duration |-> duration,
                      attack |-> attack, decay |-> OrDefault(polygonSettings.decay, 100),
                      release |-> OrDefault(polygonSettings.release, 300),
                      startAt |-> T, stopAt |-> T + duration + 100,
                      events |-> PolygonEnvelope(T, duration, polygonSettings, volume)]
         IN  Construct(E, node, duration + attack + 100, T, "Error playing note")

\* The keys of a Map in insertion order (note ids are handed out in increasing order)
RECURSIVE InOrder(_)
InOrder(S) ==
    IF S = {} THEN <<>>
    ELSE LET m == CHOOSE x \in S : \A y \in S : x <= y
         IN  <<m>> \o InOrder(S \ {m})

\* Mutant: no try/catch around oscillator.stop(): the first error ends the loop
\* and leaves stopAllNotes
RECURSIVE StopLoopUncaught(_, _, _, _, _)
StopLoopUncaught(ids, k, throwers, T, R) ==
    IF k > Len(ids) THEN R
    ELSE IF ids[k] \in throwers
         THEN [R EXCEPT !.attempted = @ \cup {ids[k]}, !.propagated = TRUE]
         ELSE StopLoopUncaught(ids, k + 1, throwers, T,
                [R EXCEPT !.attempted = @ \cup {ids[k]},
                          !.graph[ids[k]].stopAt = IF @ < T THEN @ ELSE T])

\* this.activeOscillators.forEach(oscillator => { try { oscillator.stop() } catch {} })
\* throwers: the oscillators whose stop() raises
RECURSIVE StopLoop(_, _, _, _, _)
StopLoop(ids, k, throwers, T, R) ==
    IF k > Len(ids) THEN R
    ELSE IF ids[k] \in throwers
         THEN StopLoop(ids, k + 1, throwers, T, [R EXCEPT !.attempted = @ \cup {ids[k]}])
         ELSE StopLoop(ids, k + 1, throwers, T,
                [R EXCEPT !.attempted = @ \cup {ids[k]},
                          !.graph[ids[k]].stopAt = IF @ < T THEN @ ELSE T])

\* Mutant: the registry maps are not cleared
stopAllNotesNoClear(E, T, throwers) ==
    LET R == StopLoop(InOrder(E.oscs), 1, throwers, T,
                      [graph |-> E.graph, attempted |-> {}, propagated |-> FALSE])
    IN  [engine |-> [E EXCEPT !.graph = R.graph],
         attempted |-> R.attempted, propagated |-> R.propagated]

\* AudioEngine.stopAllNotes (an error that leaves the forEach would leave the
\* method before the two clear() calls)
stopAllNotes(E, T, throwers) ==
    LET R == StopLoop(InOrder(E.oscs), 1, throwers, T,
                      [graph |-> E.graph, attempted |-> {}, propagated |-> FALSE])
    IN  IF R.propagated
        THEN [engine |-> [E EXCEPT !.graph = R.graph],
              attempted |-> R.attempted, propagated |-> TRUE]
        ELSE [engine |-> [E EXCEPT !.graph = R.graph, !.oscs = {}, !.gains = {}],
              attempted |-> R.attempted, propagated |-> FALSE]

\* Mutant: the callback clears both maps
CleanupCallbackClearsAll(E, noteId) ==
    [E EXCEPT !.oscs = {}, !.gains = {}]

\* Mutant: the callback deletes nothing
CleanupCallbackKeeps(E, noteId) == E

\* The setTimeout callback of a voice: deletes its own two entries
CleanupCallback(E, noteId) ==
    [E EXCEPT !.oscs = @ \ {noteId}, !.gains = @ \ {noteId}]

\* Nodes that have ended and are referenced by nothing are garbage
Collect(graph, oscs, T) ==
    LET keep == {id \in DOMAIN graph : graph[id].stopAt > T \/ id \in oscs}
    IN  [id \in keep |-> graph[id]]


-----------------------------------------------------------------------------
(* Bounds of the model *)

MaxVoices == 2        \* voices created in one run
MaxTime   == 2000     \* the clock stops advancing here, ms

-----------------------------------------------------------------------------
(* Initial state: the App component after its first render, the engine     *)
(* after its constructor                                                    *)

DefaultSynthSettings ==
    [enabled |-> TRUE, attack |-> 10, decay |-> 100, sustain |-> 80, release |-> 300]

\* sides is the whole part of the side count and frac its fractional part in
\* tenths (not 0 only after a fraction was typed into a Sides field)
InitialPolygons ==
    << [id |-> 1, sides |-> 3, frac |-> 0, active |-> TRUE, notes |-> <<"C", "E", "G">>,
        synthSettings |-> DefaultSynthSettings] >>

\* The record of an operation: its name, the engine before it, and for the
\* engine's methods the arguments, the console output and the outcome
NoOp(name) ==
    [name |-> name, attempted |-> {}, throwers |-> {}, propagated |-> FALSE,
     engineBefore |-> Engine, call |-> <<>>, said |-> <<>>]

AppInit ==
    /\ polygons = InitialPolygons
    /\ selectedPolygon = <<>>
    /\ selectedScale = "Major"
    /\ rootNote = "C"
    /\ playhead = [angle |-> 0, isPlaying |-> FALSE, rpm |-> 15]

SchedInit ==
    /\ rpmRef = 15
    /\ isManualJumpRef = FALSE
    /\ lastTriggerTimeRef = <<>>
    /\ session = <<>>

EngineInit ==
    /\ activeOscillators = {}
    /\ activeGains = {}
    /\ audioGraph = <<>>
    /\ nextNoteId = 1

ObsInit ==
    /\ now = 0
    /\ timers = {}
    /\ emitted = <<>>
    /\ ghost = [rot |-> <<>>, fired |-> {}, passed |-> {}, steady |-> FALSE,
                rpmSteady |-> FALSE]
    /\ edits = 0
    /\ lastOp = [name |-> "init", attempted |-> {}, throwers |-> {}, propagated |-> FALSE,
                 engineBefore |-> [ready |-> audioReady, oscs |-> {}, gains |-> {},
                                   graph |-> <<>>, nextId |-> 1, timers |-> {},
                                   fault |-> "none", said |-> <<>>],
                 call |-> <<>>, said |-> <<>>]

RestInit ==
    /\ ObsInit
    /\ fnIn = <<>>
    /\ fnOut = <<>>

\* The engine's fields after a call
SetEngine(E) ==
    /\ audioReady' = E.ready
    /\ activeOscillators' = E.oscs
    /\ activeGains' = E.gains
    /\ audioGraph' = E.graph
    /\ nextNoteId' = E.nextId
    /\ timers' = E.timers

-----------------------------------------------------------------------------
(* Time and timers (shared by every specification)                          *)

NoTimerOverdue == \A t \in timers : t.due > now

\* A due setTimeout callback runs
FireTimer ==
    \E t \in timers :
        /\ t.due <= now
        /\ IF t.kind = "cleanup"
           THEN /\ SetEngine(CleanupCallback([Engine EXCEPT !.timers = @ \ {t}], t.id))
                /\ UNCHANGED isManualJumpRef
           ELSE /\ isManualJumpRef' = FALSE
                /\ timers' = timers \ {t}
                /\ UNCHANGED engineVars
        /\ lastOp' = [NoOp("timer") EXCEPT !.call = t]
        /\ UNCHANGED <<appVars, rpmRef, lastTriggerTimeRef, session, now, emitted, ghost, edits, fnVars>>

-----------------------------------------------------------------------------
(* SpecVoice: the engine's public methods called directly                   *)

NoteChoices     == {"A", "H"}          \* "H" is not in the frequency table
DurationChoices == {500, 1000}         \* the default of AudioEngine, the App's 1.0
VolumeChoices   == {5000}
SettingsChoices ==
    { DefaultSynthSettings,
      [enabled |-> TRUE, attack |-> 500, decay |-> 1000, sustain |-> 50, release |-> 2000],
      [enabled |-> TRUE, attack |-> 0, decay |-> 0, sustain |-> 0, release |-> 0],
      [enabled |-> FALSE, attack |-> 10, decay |-> 100, sustain |-> 80, release |-> 300] }
TimeSteps       == {500}

\* One engine call and what it left on the console
VoiceCall(name, R, call) ==
    /\ SetEngine(R)
    /\ lastOp' = [NoOp(name) EXCEPT !.call = call, !.said = R.said]
    /\ UNCHANGED <<appVars, schedVars, now, emitted, ghost, edits, fnVars>>

VoicePlayNoteWithPolygonSynth ==
    \E noteName \in NoteChoices, duration \in DurationChoices,
       polygonSettings \in SettingsChoices, volume \in VolumeChoices :
        /\ nextNoteId <= MaxVoices
        /\ \E R \in {playNoteWithPolygonSynth(Engine, now, noteName, duration,
                                              polygonSettings, volume)} :
              VoiceCall("playNoteWithPolygonSynth", R,
                        [noteName |-> noteName, enabled |-> polygonSettings.enabled,
                         fault |-> "none"])

VoicePlayNote ==
    \E noteName \in NoteChoices, duration \in DurationChoices, volume \in VolumeChoices :
        /\ nextNoteId <= MaxVoices
        /\ \E R \in {playNote(Engine, now, noteName, duration, volume)} :
              VoiceCall("playNote", R, [noteName |-> noteName, fault |-> "none"])

VoiceStopAllNotes ==
    \E throwers \in SUBSET activeOscillators :
        LET R == stopAllNotes(Engine, now, throwers)
        IN  /\ SetEngine(R.engine)
            /\ lastOp' = [NoOp("stopAllNotes") EXCEPT
                             !.attempted = R.attempted, !.throwers = throwers,
                             !.propagated = R.propagated]
            /\ UNCHANGED <<appVars, schedVars, now, emitted, ghost, edits, fnVars>>

\* The clock moves on; past MaxTime only as long as a timer is pending
VoiceAdvanceTime ==
    \E d \in TimeSteps :
        /\ NoTimerOverdue
        /\ now + d <= MaxTime \/ timers # {}
        /\ now' = now + d
        /\ audioGraph' = Collect(audioGraph, activeOscillators, now + d)
        /\ lastOp' = NoOp("time")
        /\ UNCHANGED <<appVars, schedVars, timers, audioReady, activeOscillators,
                       activeGains, nextNoteId, emitted, ghost, edits, fnVars>>

InitVoice ==
    /\ audioReady \in BOOLEAN
    /\ AppInit /\ SchedInit /\ EngineInit /\ RestInit

NextVoice ==
    \/ VoicePlayNoteWithPolygonSynth
    \/ VoicePlayNote
    \/ VoiceStopAllNotes
    \/ FireTimer
    \/ VoiceAdvanceTime

SpecVoice == InitVoice /\ [][NextVoice]_vars


-----------------------------------------------------------------------------
(* SpecCalls: every entry point of both engines, with calls whose           *)
(* construction fails at one of the steps of the try block                  *)

CallSettings == {DefaultSynthSettings, [DefaultSynthSettings EXCEPT !.enabled = FALSE]}

CallPlayNoteWithPolygonSynth ==
    \E noteName \in NoteChoices, duration \in DurationChoices,
       polygonSettings \in CallSettings, volume \in VolumeChoices, fault \in FaultSteps :
        /\ nextNoteId <= MaxVoices
        /\ \E R \in {playNoteWithPolygonSynth([Engine EXCEPT !.fault = fault], now, noteName,
                                              duration, polygonSettings, volume)} :
              VoiceCall("playNoteWithPolygonSynth", R,
                        [noteName |-> noteName, enabled |-> polygonSettings.enabled,
                         fault |-> fault])

CallPlayNote ==
    \E noteName \in NoteChoices, duration \in DurationChoices, volume \in VolumeChoices,
       fault \in FaultSteps :
        /\ nextNoteId <= MaxVoices
        /\ \E R \in {playNote([Engine EXCEPT !.fault = fault], now, noteName, duration, volume)} :
              VoiceCall("playNote", R, [noteName |-> noteName, fault |-> fault])

CallSynthEngine ==
    \E noteName \in NoteChoices, duration \in DurationChoices,
       polygonSettings \in CallSettings, volume \in VolumeChoices, fault \in FaultSteps :
        /\ audioReady
        /\ nextNoteId <= MaxVoices
        /\ \E R \in {SynthEngine_playNoteWithPolygonSynth([Engine EXCEPT !.fault = fault], now,
                            noteName, duration, polygonSettings, volume)} :
              VoiceCall("SynthEngine.playNoteWithPolygonSynth", R,
                        [noteName |-> noteName, enabled |-> polygonSettings.enabled,
                         fault |-> fault])

NextCalls ==
    \/ CallPlayNoteWithPolygonSynth
    \/ CallPlayNote
    \/ CallSynthEngine
    \/ FireTimer
    \/ VoiceAdvanceTime

SpecCalls == InitVoice /\ [][NextCalls]_vars

\* stopAllNotes with every oscillator.stop succeeding
StopAllNotes ==
    LET R == stopAllNotes(Engine, now, {})
    IN  /\ SetEngine(R.engine)
        /\ lastOp' = [NoOp("stopAllNotes") EXCEPT !.attempted = R.attempted]
        /\ UNCHANGED <<appVars, schedVars, now, emitted, ghost, edits, fnVars>>

NextCleanup ==
    \/ VoicePlayNoteWithPolygonSynth
    \/ VoicePlayNote
    \/ StopAllNotes
    \/ FireTimer
    \/ VoiceAdvanceTime

\* The event loop runs due timer callbacks and the clock does not stop
FairVoice == InitVoice /\ [][NextCleanup]_vars /\ WF_vars(FireTimer) /\ WF_vars(VoiceAdvanceTime)


-----------------------------------------------------------------------------
(* The App component: scheduler (crossing detector) and handlers            *)

MaxPolygons == 2      \* polygons on the canvas
MaxEdits    == 3      \* note, structure and scale edits in one run
EpochMs     == 1000000  \* Date.now() - performance.now(), a stand-in for the epoch offset

DateNow(t) == EpochMs + t

\* const newAngle = progress * 360, with progress the fractional part of
\* elapsed / (60 / rpmRef.current); elapsed in ms, result in millidegrees
AnimateAngle(currentTime, startTime, rpm) ==
    ((currentTime - startTime) * rpm * 6) % 360000

\* lastAngle < vertexAngle and angle >= vertexAngle for vertexAngle = i * 360 / sides,
\* compared exactly by cross-multiplication
Below(a, i, sides)   == a * sides < i * 360000
AtLeast(a, i, sides) == a * sides >= i * 360000

\* let crossedVertex = ... of checkNoteTriggers
crossedVertex(lastAngle, angle, i, sides) ==
    IF lastAngle < angle
    THEN Below(lastAngle, i, sides) /\ AtLeast(angle, i, sides)
    ELSE Below(lastAngle, i, sides) \/ AtLeast(angle, i, sides)

\* Mutant: any time after the last trigger is long enough
IntervalElapsedAlways(tnow, lastTrigger, currentRPM) == tnow >= lastTrigger

\* now - lastTrigger > Math.max(100, (60 / currentRPM) * 1000 / 4); the second
\* term is Infinity for an RPM of 0 and negative for a negative RPM
IntervalElapsed(tnow, lastTrigger, currentRPM) ==
    /\ tnow - lastTrigger > 100
    /\ currentRPM # 0
    /\ currentRPM > 0 => (tnow - lastTrigger) * currentRPM > 15000

\* `${polygon.id}_${i}_${note}`
NoteKey(polygon, i, note) == <<polygon.id, i, note>>

\* The body of the vertex loop for vertex i (0-based) and its successors;
\* S = [ltt, engine, out] is threaded through
RECURSIVE CheckVertices(_, _, _, _, _, _, _)
CheckVertices(polygon, i, angle, lastAngle, tnow, rpm, S) ==
    IF i >= polygon.sides THEN S
    ELSE LET note   == polygon.notes[i + 1]
             noteId == NoteKey(polygon, i, note)
             has    == noteId \in DOMAIN S.ltt /\ S.ltt[noteId] # 0
             fire   == /\ crossedVertex(lastAngle, angle, i, polygon.sides)
                       /\ note # Null
                       /\ (~has \/ IntervalElapsed(tnow, S.ltt[noteId], rpm))
             S2 == IF fire
                   THEN [ltt    |-> (noteId :> tnow) @@ S.ltt,
                         engine |-> playNoteWithPolygonSynth(S.engine, tnow, note, 1000,
                                                             polygon.synthSettings, 5000),
                         out    |-> Append(S.out, [polygonId |-> polygon.id, vertex |-> i,
                                                   note |-> note, time |-> tnow])]
                   ELSE S
         IN  CheckVertices(polygon, i + 1, angle, lastAngle, tnow, rpm, S2)

\* Mutant: the polygon list is walked from its last entry to its first
RECURSIVE checkNoteTriggersBackwards(_, _, _, _, _, _, _)
checkNoteTriggersBackwards(polys, p, angle, lastAngle, tnow, rpm, S) ==
    IF p > Len(polys) THEN S
    ELSE IF ~polys[Len(polys) + 1 - p].active
         THEN checkNoteTriggersBackwards(polys, p + 1, angle, lastAngle, tnow, rpm, S)
         ELSE checkNoteTriggersBackwards(polys, p + 1, angle, lastAngle, tnow, rpm,
                  CheckVertices(polys[Len(polys) + 1 - p], 0, angle, lastAngle, tnow,
                                rpm, S))

\* polygons.forEach(polygon => { if (!polygon.active) return; ... })
RECURSIVE checkNoteTriggers(_, _, _, _, _, _, _)
checkNoteTriggers(polys, p, angle, lastAngle, tnow, rpm, S) ==
    IF p > Len(polys) THEN S
    ELSE IF ~polys[p].active
         THEN checkNoteTriggers(polys, p + 1, angle, lastAngle, tnow, rpm, S)
         ELSE checkNoteTriggers(polys, p + 1, angle, lastAngle, tnow, rpm,
                  CheckVertices(polys[p], 0, angle, lastAngle, tnow, rpm, S))

\* The animation useEffect with dependencies [playhead.isPlaying,
\* checkNoteTriggers, playhead.angle]; checkNoteTriggers is a new function
\* whenever setPolygons stored a new array. A changed dependency runs the
\* cleanup (cancelAnimationFrame) and the effect again.
AnimationEffect(oldPlayhead, newPlayhead, polygonsSet, sess, t) ==
    IF /\ oldPlayhead.isPlaying = newPlayhead.isPlaying
       /\ ~polygonsSet
       /\ oldPlayhead.angle = newPlayhead.angle
    THEN sess
    ELSE IF ~newPlayhead.isPlaying THEN <<>>
    ELSE << [startTime |-> t, lastAngle |-> newPlayhead.angle] >>

VertexKeys(polys) ==
    UNION { {<<polys[p].id, i>> : i \in 0..(polys[p].sides - 1)} : p \in 1..Len(polys) }

RotOf(k) == IF k \in DOMAIN ghost.rot THEN ghost.rot[k] ELSE 0

Unsteady == [ghost EXCEPT !.steady = FALSE]

FindPolygon(polygonId) ==
    IF \E p \in 1..Len(polygons) : polygons[p].id = polygonId
    THEN CHOOSE p \in 1..Len(polygons) :
            polygons[p].id = polygonId /\ \A q \in 1..(p - 1) : polygons[q].id # polygonId
    ELSE 0

\* One requestAnimationFrame callback (animate) and the render it causes
Frame(dt) ==
    /\ session # <<>>
    /\ NoTimerOverdue
    /\ now + dt <= MaxTime
    /\ \E R \in {checkNoteTriggers(polygons, 1,
                                     AnimateAngle(now + dt, session[1].startTime, rpmRef),
                                     session[1].lastAngle, now + dt, rpmRef,
                                     [ltt |-> lastTriggerTimeRef, engine |-> Engine,
                                      out |-> <<>>])} :
       LET currentTime == now + dt
           s           == session[1]
           newAngle    == AnimateAngle(currentTime, s.startTime, rpmRef)
           newPlayhead == [playhead EXCEPT !.angle = newAngle]
           turned      == dt * rpmRef * 6
           firedNow    == {<<R.out[j].polygonId, R.out[j].vertex>> : j \in 1..Len(R.out)}
       IN  /\ now' = currentTime
           /\ lastTriggerTimeRef' = R.ltt
           /\ SetEngine([R.engine EXCEPT
                           !.graph = Collect(R.engine.graph, R.engine.oscs, currentTime)])
           /\ playhead' = newPlayhead
           /\ session' = AnimationEffect(playhead, newPlayhead, FALSE,
                                         << [s EXCEPT !.lastAngle = newAngle] >>, currentTime)
           /\ emitted' = [j \in 1..Len(R.out) |->
                            [polygonId |-> R.out[j].polygonId, vertex |-> R.out[j].vertex,
                             note |-> R.out[j].note, time |-> R.out[j].time,
                             turned |-> RotOf(<<R.out[j].polygonId, R.out[j].vertex>>) + turned,
                             again |-> <<R.out[j].polygonId, R.out[j].vertex>> \in ghost.fired]]
           /\ ghost' = [ghost EXCEPT
                          !.rot = [k \in VertexKeys(polygons) |->
                                      IF k \in firedNow THEN 0 ELSE RotOf(k) + turned],
                          !.fired = @ \cup firedNow]
    /\ lastOp' = NoOp("frame")
    /\ UNCHANGED <<polygons, selectedPolygon, selectedScale, rootNote, rpmRef,
                   isManualJumpRef, edits, fnVars>>

\* Mutant: pausing silences the engine (stopAllNotes on the way to pause)
togglePlayStopsVoices ==
    LET newPlayhead == [playhead EXCEPT !.isPlaying = ~playhead.isPlaying]
    IN  /\ edits' = edits + 1
        /\ playhead' = newPlayhead
        /\ session' = AnimationEffect(playhead, newPlayhead, FALSE, session, now)
        /\ ghost' = IF newPlayhead.isPlaying
                    THEN [rot |-> [k \in VertexKeys(polygons) |-> 0], fired |-> {}, passed |-> {},
                          steady |-> TRUE, rpmSteady |-> TRUE]
                    ELSE Unsteady
        /\ lastOp' = NoOp("togglePlay")
        /\ emitted' = <<>>
        /\ IF newPlayhead.isPlaying
           THEN UNCHANGED engineVars /\ UNCHANGED timers
           ELSE SetEngine(stopAllNotes(Engine, now, {}).engine)
        /\ UNCHANGED <<polygons, selectedPolygon, selectedScale, rootNote, rpmRef,
                       isManualJumpRef, lastTriggerTimeRef, now, fnVars>>

\* togglePlay: resumeContext() touches neither registry nor timers
togglePlay ==
    LET newPlayhead == [playhead EXCEPT !.isPlaying = ~playhead.isPlaying]
    IN  /\ edits' = edits + 1
        /\ playhead' = newPlayhead
        /\ session' = AnimationEffect(playhead, newPlayhead, FALSE, session, now)
        /\ ghost' = IF newPlayhead.isPlaying
                    THEN [rot |-> [k \in VertexKeys(polygons) |-> 0], fired |-> {}, passed |-> {},
                          steady |-> TRUE, rpmSteady |-> TRUE]
                    ELSE Unsteady
        /\ lastOp' = NoOp("togglePlay")
        /\ emitted' = <<>>
        /\ UNCHANGED <<polygons, selectedPolygon, selectedScale, rootNote, rpmRef,
                       isManualJumpRef, lastTriggerTimeRef, timeVars, engineVars, fnVars>>

resetPlayhead ==
    LET newPlayhead == [playhead EXCEPT !.angle = 0, !.isPlaying = FALSE]
    IN  /\ edits' = edits + 1
        /\ playhead' = newPlayhead
        /\ session' = AnimationEffect(playhead, newPlayhead, FALSE, session, now)
        /\ ghost' = Unsteady
        /\ lastOp' = NoOp("resetPlayhead")
        /\ emitted' = <<>>
        /\ UNCHANGED <<polygons, selectedPolygon, selectedScale, rootNote, rpmRef,
                       isManualJumpRef, lastTriggerTimeRef, timeVars, engineVars, fnVars>>

\* updateRPM and the effect that copies playhead.rpm into rpmRef
updateRPM(rpm) ==
    /\ edits' = edits + 1
    /\ playhead' = [playhead EXCEPT !.rpm = rpm]
    /\ rpmRef' = rpm
    /\ ghost' = IF rpm = playhead.rpm THEN ghost
                ELSE [ghost EXCEPT !.rpmSteady = FALSE, !.passed = ghost.fired]
    /\ lastOp' = NoOp("updateRPM")
    /\ emitted' = <<>>
    /\ UNCHANGED <<polygons, selectedPolygon, selectedScale, rootNote, isManualJumpRef,
                   lastTriggerTimeRef, session, timeVars, engineVars, fnVars>>

addPolygon ==
    /\ LET newSides   == Len(polygons) + 3
           newPolygon == [id |-> DateNow(now), sides |-> newSides, frac |-> 0,
                          active |-> TRUE,
                          notes |-> [i \in 1..newSides |-> Null],
                          synthSettings |-> DefaultSynthSettings]
       IN  polygons' = Append(polygons, newPolygon)
    /\ session' = AnimationEffect(playhead, playhead, TRUE, session, now)
    /\ ghost' = Unsteady
    /\ edits' = edits + 1
    /\ lastOp' = NoOp("addPolygon")
    /\ emitted' = <<>>
    /\ UNCHANGED <<selectedPolygon, selectedScale, rootNote, playhead, rpmRef,
                   isManualJumpRef, lastTriggerTimeRef, timeVars, engineVars, fnVars>>

\* (vertexAngle - 5 + 360) % 360 with vertexAngle = (vertexIndex * 360 / sides) % 360,
\* rounded down to a millidegree
TargetAngle(vertexIndex, sides) ==
    ((((vertexIndex * 360000) \div sides) % 360000) - 5000 + 360000) % 360000

\* The scale degree that follows currentNote
NextNote(currentNote) ==
    LET scale        == getScaleNotes(selectedScale, rootNote)
        currentIndex == IF currentNote # Null THEN IndexOf(scale, currentNote) ELSE -1
        nextIndex    == (currentIndex + 1) % Len(scale)
    IN  scale[nextIndex + 1]

\* newNotes[vertexIndex] = note, which lengthens a shorter array
AssignNote(notes, vertexIndex, note) ==
    IF vertexIndex < Len(notes) THEN [notes EXCEPT ![vertexIndex + 1] = note]
    ELSE notes \o [k \in 1..(vertexIndex - Len(notes)) |-> Null] \o <<note>>

\* The pitch at a vertex (undefined past the end of the array)
NoteAtVertex(polygon, vertexIndex) ==
    IF vertexIndex < Len(polygon.notes) THEN polygon.notes[vertexIndex + 1] ELSE Null

\* Every polygon with the id gets the note
SetNote(polys, polygonId, vertexIndex, note) ==
    [p \in 1..Len(polys) |->
        IF polys[p].id = polygonId
        THEN [polys[p] EXCEPT !.notes = AssignNote(polys[p].notes, vertexIndex, note)]
        ELSE polys[p]]

cycleNote(polygonId, vertexIndex) ==
    /\ FindPolygon(polygonId) # 0
    /\ LET polygon     == polygons[FindPolygon(polygonId)]
           nextNote    == NextNote(NoteAtVertex(polygon, vertexIndex))
           targetAngle == TargetAngle(vertexIndex, polygon.sides)
           newPlayhead == [playhead EXCEPT !.angle = targetAngle]
           E1 == playNoteWithPolygonSynth(Engine, now, nextNote, 1000,
                                          polygon.synthSettings, 5000)
       IN  /\ polygons' = SetNote(polygons, polygonId, vertexIndex, nextNote)
           /\ selectedPolygon' =
                 IF selectedPolygon # <<>> /\ selectedPolygon[1].id = polygonId
                 THEN SetNote(selectedPolygon, polygonId, vertexIndex, nextNote)
                 ELSE selectedPolygon
           /\ isManualJumpRef' = TRUE
           /\ playhead' = newPlayhead
           /\ SetEngine([E1 EXCEPT !.timers = @ \cup {JumpTimer(now + 500)}])
           /\ session' = AnimationEffect(playhead, newPlayhead, TRUE, session, now)
    /\ ghost' = Unsteady
    /\ edits' = edits + 1
    /\ lastOp' = NoOp("cycleNote")
    /\ emitted' = <<>>
    /\ UNCHANGED <<selectedScale, rootNote, rpmRef, lastTriggerTimeRef, now, fnVars>>

deleteNote(polygonId, vertexIndex) ==
    /\ FindPolygon(polygonId) # 0
    /\ polygons' = SetNote(polygons, polygonId, vertexIndex, Null)
    /\ selectedPolygon' =
          IF selectedPolygon # <<>> /\ selectedPolygon[1].id = polygonId
          THEN SetNote(selectedPolygon, polygonId, vertexIndex, Null)
          ELSE selectedPolygon
    /\ session' = AnimationEffect(playhead, playhead, TRUE, session, now)
    /\ ghost' = Unsteady
    /\ edits' = edits + 1
    /\ lastOp' = NoOp("deleteNote")
    /\ emitted' = <<>>
    /\ UNCHANGED <<selectedScale, rootNote, playhead, rpmRef, isManualJumpRef,
                   lastTriggerTimeRef, timeVars, engineVars, fnVars>>

openEditPopup(p) ==
    /\ selectedPolygon' = << polygons[p] >>
    /\ lastOp' = NoOp("openEditPopup")
    /\ emitted' = <<>>
    /\ UNCHANGED <<polygons, selectedScale, rootNote, playhead, schedVars, timeVars,
                   engineVars, ghost, edits, fnVars>>

closeEditPopup ==
    /\ selectedPolygon # <<>>
    /\ selectedPolygon' = <<>>
    /\ lastOp' = NoOp("closeEditPopup")
    /\ emitted' = <<>>
    /\ UNCHANGED <<polygons, selectedScale, rootNote, playhead, schedVars, timeVars,
                   engineVars, ghost, edits, fnVars>>

handleScaleChange(scale) ==
    /\ LET R == updatePolygonNotesForNewScale(polygons, selectedPolygon, scale, rootNote)
       IN  /\ polygons' = R.updatedPolygons
           /\ selectedPolygon' = R.updatedSelectedPolygon
    /\ selectedScale' = scale
    /\ session' = AnimationEffect(playhead, playhead, TRUE, session, now)
    /\ ghost' = Unsteady
    /\ edits' = edits + 1
    /\ lastOp' = NoOp("handleScaleChange")
    /\ emitted' = <<>>
    /\ UNCHANGED <<rootNote, playhead, rpmRef, isManualJumpRef, lastTriggerTimeRef,
                   timeVars, engineVars, fnVars>>

handleRootNoteChange(note) ==
    /\ LET R == updatePolygonNotesForNewScale(polygons, selectedPolygon, selectedScale, note)
       IN  /\ polygons' = R.updatedPolygons
           /\ selectedPolygon' = R.updatedSelectedPolygon
    /\ rootNote' = note
    /\ session' = AnimationEffect(playhead, playhead, TRUE, session, now)
    /\ ghost' = Unsteady
    /\ edits' = edits + 1
    /\ lastOp' = NoOp("handleRootNoteChange")
    /\ emitted' = <<>>
    /\ UNCHANGED <<selectedScale, playhead, rpmRef, isManualJumpRef, lastTriggerTimeRef,
                   timeVars, engineVars, fnVars>>

-----------------------------------------------------------------------------
(* SpecScale: a burst of edits and scale changes on the stopped playhead    *)

CycleNote ==
    /\ edits < MaxEdits
    /\ \E p \in 1..Len(polygons) : \E i \in 0..(polygons[p].sides - 1) :
          cycleNote(polygons[p].id, i)

DeleteNote ==
    /\ edits < MaxEdits
    /\ \E p \in 1..Len(polygons) : \E i \in 0..(polygons[p].sides - 1) :
          deleteNote(polygons[p].id, i)

AddPolygon == edits < MaxEdits /\ Len(polygons) < MaxPolygons /\ addPolygon

OpenEditPopup == \E p \in 1..Len(polygons) : openEditPopup(p)

ChangeScale == edits < MaxEdits /\ \E scale \in ScaleNames : handleScaleChange(scale)

RootChoices == {"C", "D", "F#"}

ChangeRoot == edits < MaxEdits /\ \E note \in RootChoices : handleRootNoteChange(note)

InitScale ==
    /\ audioReady \in BOOLEAN
    /\ AppInit /\ SchedInit /\ EngineInit /\ RestInit

NextScale ==
    \/ CycleNote
    \/ DeleteNote
    \/ AddPolygon
    \/ OpenEditPopup
    \/ closeEditPopup
    \/ ChangeScale
    \/ ChangeRoot

SpecScale == InitScale /\ [][NextScale]_vars

-----------------------------------------------------------------------------
(* SpecRemap: getScaleNotes and updatePolygonNotesForNewScale applied to    *)
(* every scale, every root and a triangle holding any two pitches           *)

MaxCalls == 2     \* successive applications of updatePolygonNotesForNewScale

\* A triangle with any pitch on its first vertex, any pitch or none on the
\* second and none on the third
InputNotes == { <<a, b, Null>> : a \in Notes, b \in Notes \cup {Null} }

InputPolygon(notes) ==
    [id |-> 1, sides |-> 3, frac |-> 0, active |-> TRUE, notes |-> notes,
     synthSettings |-> DefaultSynthSettings]

ApplyGetScaleNotes ==
    /\ fnIn # <<>>
    /\ fnOut.scaleNotes = <<>>
    /\ fnOut' = [fnOut EXCEPT !.scaleNotes = getScaleNotes(fnIn.scale, fnIn.root)]
    /\ UNCHANGED <<appVars, schedVars, timeVars, engineVars, obsVars, fnIn>>

ApplyUpdatePolygonNotes ==
    /\ fnIn # <<>>
    /\ Len(fnOut.results) < MaxCalls
    /\ LET n    == Len(fnOut.results)
           polys == IF n = 0 THEN fnIn.polygons ELSE fnOut.results[n].updatedPolygons
           sel   == IF n = 0 THEN fnIn.selectedPolygon
                    ELSE fnOut.results[n].updatedSelectedPolygon
       IN  fnOut' = [fnOut EXCEPT !.results =
                        Append(@, updatePolygonNotesForNewScale(polys, sel, fnIn.scale,
                                                                fnIn.root))]
    /\ UNCHANGED <<appVars, schedVars, timeVars, engineVars, obsVars, fnIn>>

InitRemap ==
    /\ audioReady = FALSE
    /\ AppInit /\ SchedInit /\ EngineInit /\ ObsInit
    /\ \E notes \in InputNotes, scale \in ScaleNames, root \in Notes, open \in BOOLEAN :
          fnIn = [polygons        |-> << InputPolygon(notes) >>,
                  selectedPolygon |-> IF open THEN << InputPolygon(notes) >> ELSE <<>>,
                  scale           |-> scale,
                  root            |-> root]
    /\ fnOut = [scaleNotes |-> <<>>, results |-> <<>>]

NextRemap ==
    \/ ApplyGetScaleNotes
    \/ ApplyUpdatePolygonNotes

SpecRemap == InitRemap /\ [][NextRemap]_vars

-----------------------------------------------------------------------------
(* SpecColors: getScaleNotes and getNoteColor applied to every scale name   *)
(* of the table, to names the table does not hold, to every root and pitch  *)

UnknownNames == {"Blues", "", "constructor", "toString"}

PolygonColors == {"#00ff00", "#ff00ff"}

ApplyGetNoteColor ==
    /\ fnIn # <<>>
    /\ fnOut.color = ""
    /\ fnOut' = [fnOut EXCEPT !.color = getNoteColor(fnIn.note, fnIn.polygonColor,
                                                     fnIn.scale, fnIn.root)]
    /\ UNCHANGED <<appVars, schedVars, timeVars, engineVars, obsVars, fnIn>>

InitColors ==
    /\ audioReady = FALSE
    /\ AppInit /\ SchedInit /\ EngineInit /\ ObsInit
    /\ \E scale \in ScaleNames \cup UnknownNames, root \in Notes,
          note \in Notes \cup {Null}, polygonColor \in PolygonColors :
          fnIn = [scale |-> scale, root |-> root, note |-> note,
                  polygonColor |-> polygonColor]
    /\ fnOut = [scaleNotes |-> <<>>, results |-> <<>>, color |-> ""]

NextColors ==
    \/ ApplyGetScaleNotes
    \/ ApplyGetNoteColor

SpecColors == InitColors /\ [][NextColors]_vars

-----------------------------------------------------------------------------
(* SpecSelectors: the variant of the App whose Scale and Root Note          *)
(* dropdowns store the new value directly                                   *)

\* onChange={(e) => { setSelectedScale(e.target.value); }}
setSelectedScale(scale) ==
    /\ edits' = edits + 1
    /\ selectedScale' = scale
    /\ lastOp' = NoOp("setSelectedScale")
    /\ emitted' = <<>>
    /\ UNCHANGED <<polygons, selectedPolygon, rootNote, playhead, schedVars, timeVars,
                   engineVars, ghost, fnVars>>

\* onChange={(e) => { setRootNote(e.target.value); }}
setRootNote(note) ==
    /\ edits' = edits + 1
    /\ rootNote' = note
    /\ lastOp' = NoOp("setRootNote")
    /\ emitted' = <<>>
    /\ UNCHANGED <<polygons, selectedPolygon, selectedScale, playhead, schedVars, timeVars,
                   engineVars, ghost, fnVars>>

SelectScale == edits < MaxEdits /\ \E scale \in ScaleNames : setSelectedScale(scale)

SelectRoot == edits < MaxEdits /\ \E note \in RootChoices : setRootNote(note)

NextSelectors ==
    \/ CycleNote
    \/ DeleteNote
    \/ AddPolygon
    \/ OpenEditPopup
    \/ closeEditPopup
    \/ SelectScale
    \/ SelectRoot

SpecSelectors == InitScale /\ [][NextSelectors]_vars

-----------------------------------------------------------------------------
(* Spec: playback.  The user starts and stops the playhead and moves the    *)
(* RPM slider while animation frames arrive every 16 or 17 ms.              *)

MaxPlayTime == 300          \* playback is followed for this many ms
MaxPlayOps  == 2            \* presses of play / reset and moves of the RPM slider
FrameSteps  == {16, 17}     \* 60 frames per second
RpmChoices  == {15, 60, 150}

AnimationFrame == \E dt \in FrameSteps : now + dt <= MaxPlayTime /\ Frame(dt)

TogglePlay == edits < MaxPlayOps /\ togglePlay

ResetPlayhead == edits < MaxPlayOps /\ resetPlayhead

ChangeRPM == edits < MaxPlayOps /\ \E rpm \in RpmChoices : updateRPM(rpm)

Init ==
    /\ audioReady = TRUE
    /\ AppInit /\ SchedInit /\ EngineInit /\ RestInit

Next ==
    \/ TogglePlay
    \/ ResetPlayhead
    \/ ChangeRPM
    \/ AnimationFrame

Spec == Init /\ [][Next]_vars

\* The same App with the RPM slider left alone
NextTransport ==
    \/ TogglePlay
    \/ ResetPlayhead
    \/ AnimationFrame

SpecTransport == Init /\ [][NextTransport]_vars

\* Playback of the same App while polygons are added and notes are edited,
\* followed for a few frames of 16 ms
MaxSessionTime == 144

SliderRpm == {30, 300}      \* min and max of the RPM slider

SessionFrame == now + 16 <= MaxSessionTime /\ Frame(16)

MoveSlider == edits < MaxEdits /\ \E rpm \in SliderRpm : updateRPM(rpm)

NextSession ==
    \/ TogglePlay
    \/ MoveSlider
    \/ AddPolygon
    \/ CycleNote
    \/ SessionFrame

SpecSession == Init /\ [][NextSession]_vars

\* Uninterrupted playback: the RPM slider is set, Play is pressed once, and
\* from then on requestAnimationFrame keeps delivering frames 16 ms apart and
\* due timers fire, until the clock of the model stops at MaxTime
SetSlider == ~playhead.isPlaying /\ edits = 0 /\ \E rpm \in SliderRpm : updateRPM(rpm)

PressPlay == ~playhead.isPlaying /\ togglePlay

PlaybackFrame == Frame(16)

NextPlayback ==
    \/ SetSlider
    \/ PressPlay
    \/ PlaybackFrame
    \/ FireTimer

FairPlayback ==
    Init /\ [][NextPlayback]_vars /\ WF_vars(PlaybackFrame) /\ WF_vars(FireTimer)

\* Playback over polygon lists of the Polygon interface: two triangles whose
\* active flags and pitches are drawn from the type (no handler of the App
\* clears the flag; checkNoteTriggers tests it on every frame)
GateNotes == {<<"C", "E", "G">>, <<"D", Null, "A">>, <<Null, Null, Null>>}

GatePolygon(id, active, notes) ==
    [id |-> id, sides |-> 3, frac |-> 0, active |-> active, notes |-> notes,
     synthSettings |-> DefaultSynthSettings]

InitGate ==
    /\ audioReady = TRUE
    /\ \E a1 \in BOOLEAN, a2 \in BOOLEAN, n1 \in GateNotes, n2 \in GateNotes :
          polygons = << GatePolygon(1, a1, n1), GatePolygon(2, a2, n2) >>
    /\ selectedPolygon = <<>>
    /\ selectedScale = "Major"
    /\ rootNote = "C"
    /\ playhead = [angle |-> 0, isPlaying |-> FALSE, rpm |-> 15]
    /\ SchedInit /\ EngineInit /\ RestInit

NextGate ==
    \/ TogglePlay
    \/ ResetPlayhead
    \/ SessionFrame

SpecGate == InitGate /\ [][NextGate]_vars

-----------------------------------------------------------------------------
(* The App variant with the threshold detector, the RPM number field and    *)
(* the remap effect (definitions with the suffix _v2)                       *)

\* progress * 360 with progress = (elapsed % secondsPerRevolution) /
\* secondsPerRevolution and secondsPerRevolution = 60 / playhead.rpm: Infinity
\* for an RPM of 0 (elapsed % Infinity = elapsed, elapsed / Infinity = 0),
\* negative for a negative RPM (% keeps the sign of elapsed, the quotient is
\* negative); elapsed in ms, result in millidegrees
AnimateAngle_v2(elapsed, rpm) ==
    IF rpm = 0 THEN 0
    ELSE IF rpm > 0 THEN (elapsed * rpm * 6) % 360000
    ELSE 0 - ((elapsed * (0 - rpm) * 6) % 360000)

\* angleDiff < 5 || angleDiff > 355 with angleDiff = Math.abs(angle - vertexAngle)
\* and vertexAngle = (i * 360 / sides) % 360, compared exactly by
\* cross-multiplication
NearVertex(angle, i, sides) ==
    \/ Abs(angle * sides - i * 360000) < 5000 * sides
    \/ Abs(angle * sides - i * 360000) > 355000 * sides

\* The body of the vertex loop: a fixed 100 ms between triggers of one note
RECURSIVE CheckVertices_v2(_, _, _, _, _)
CheckVertices_v2(polygon, i, angle, tnow, S) ==
    IF i >= polygon.sides THEN S
    ELSE LET note   == polygon.notes[i + 1]
             noteId == NoteKey(polygon, i, note)
             has    == noteId \in DOMAIN S.ltt /\ S.ltt[noteId] # 0
             fire   == /\ NearVertex(angle, i, polygon.sides)
                       /\ note # Null
                       /\ (~has \/ tnow - S.ltt[noteId] > 100)
             S2 == IF fire
                   THEN [ltt    |-> (noteId :> tnow) @@ S.ltt,
                         engine |-> playNoteWithPolygonSynth(S.engine, tnow, note, 1000,
                                                             polygon.synthSettings, 5000),
                         out    |-> Append(S.out, [polygonId |-> polygon.id, vertex |-> i,
                                                   note |-> note, time |-> tnow])]
                   ELSE S
         IN  CheckVertices_v2(polygon, i + 1, angle, tnow, S2)

RECURSIVE checkNoteTriggers_v2(_, _, _, _, _)
checkNoteTriggers_v2(polys, p, angle, tnow, S) ==
    IF p > Len(polys) THEN S
    ELSE IF ~polys[p].active
         THEN checkNoteTriggers_v2(polys, p + 1, angle, tnow, S)
         ELSE checkNoteTriggers_v2(polys, p + 1, angle, tnow,
                  CheckVertices_v2(polys[p], 0, angle, tnow, S))

\* The animation useEffect with dependencies [playhead.isPlaying, playhead.rpm,
\* polygons, checkNoteTriggers]: every run takes a new startTime
AnimationEffect_v2(newPlayhead, t) ==
    IF newPlayhead.isPlaying
    THEN << [startTime |-> t, lastAngle |-> newPlayhead.angle] >>
    ELSE <<>>

\* One requestAnimationFrame callback (animate).  The remap effect stores a
\* new polygons array after every render (its dependencies include polygons
\* and the scaleSystem object made by each render), so the animation effect
\* has run again since the last frame: elapsed ms before this callback.
Frame_v2(dt, elapsed) ==
    /\ session # <<>>
    /\ NoTimerOverdue
    /\ now + dt <= MaxTime
    /\ elapsed <= dt
    /\ now' = now + dt
    /\ IF isManualJumpRef
       THEN /\ session' = session
            /\ emitted' = <<>>
            /\ UNCHANGED <<playhead, lastTriggerTimeRef, engineVars, timers>>
       ELSE \E R \in {checkNoteTriggers_v2(polygons, 1,
                                            AnimateAngle_v2(elapsed, playhead.rpm), now + dt,
                                            [ltt |-> lastTriggerTimeRef, engine |-> Engine,
                                             out |-> <<>>])} :
              LET newPlayhead == [playhead EXCEPT
                                    !.angle = AnimateAngle_v2(elapsed, playhead.rpm)]
              IN  /\ lastTriggerTimeRef' = R.ltt
                  /\ SetEngine([R.engine EXCEPT
                                  !.graph = Collect(R.engine.graph, R.engine.oscs, now + dt)])
                  /\ playhead' = newPlayhead
                  /\ session' = AnimationEffect_v2(newPlayhead, now + dt)
                  /\ emitted' = R.out
    /\ lastOp' = [NoOp("animate_v2") EXCEPT !.call = [angle |-> playhead.angle]]
    /\ UNCHANGED <<polygons, selectedPolygon, selectedScale, rootNote, rpmRef,
                   isManualJumpRef, ghost, edits, fnVars>>

togglePlay_v2 ==
    LET newPlayhead == [playhead EXCEPT !.isPlaying = ~playhead.isPlaying]
    IN  /\ edits' = edits + 1
        /\ playhead' = newPlayhead
        /\ session' = AnimationEffect_v2(newPlayhead, now)
        /\ lastOp' = NoOp("togglePlay_v2")
        /\ emitted' = <<>>
        /\ UNCHANGED <<polygons, selectedPolygon, selectedScale, rootNote, rpmRef,
                       isManualJumpRef, lastTriggerTimeRef, timeVars, engineVars, ghost,
                       fnVars>>

\* <input type="number" onChange={(e) => updateRPM(Number(e.target.value))}>
updateRPM_v2(rpm) ==
    LET newPlayhead == [playhead EXCEPT !.rpm = rpm]
    IN  /\ edits' = edits + 1
        /\ playhead' = newPlayhead
        /\ session' = AnimationEffect_v2(newPlayhead, now)
        /\ lastOp' = NoOp("updateRPM_v2")
        /\ emitted' = <<>>
        /\ UNCHANGED <<polygons, selectedPolygon, selectedScale, rootNote, rpmRef,
                       isManualJumpRef, lastTriggerTimeRef, timeVars, engineVars, ghost,
                       fnVars>>

-----------------------------------------------------------------------------
(* SpecTypedRpm: playback of that variant while the user types into the RPM *)
(* field                                                                    *)

\* Number(e.target.value) for the texts "0" (or the emptied field), "-30",
\* "30" and "120"
TypedRpm        == {0, -30, 30, 120}
ElapsedChoices  == {1, 16}

AnimationFrame_v2 ==
    \E dt \in FrameSteps, elapsed \in ElapsedChoices :
        now + dt <= MaxPlayTime /\ Frame_v2(dt, elapsed)

TogglePlay_v2 == edits < MaxPlayOps /\ togglePlay_v2

TypeRPM == edits < MaxPlayOps /\ \E rpm \in TypedRpm : updateRPM_v2(rpm)

NextTypedRpm ==
    \/ TogglePlay_v2
    \/ TypeRPM
    \/ AnimationFrame_v2

SpecTypedRpm == Init /\ [][NextTypedRpm]_vars

-----------------------------------------------------------------------------
(* The same variant: layers, their Sides fields and vertex edits            *)

\* The renders after a handler: the remap effect stores the remapped polygons
\* (and the remapped selected polygon, if there is one)
Rendered_v2(polys, sel, scale, root) ==
    LET R == updatePolygonNotesForNewScale(polys, sel, scale, root)
    IN  [polygons |-> R.updatedPolygons,
         selectedPolygon |-> IF R.updatedSelectedPolygon # <<>>
                             THEN R.updatedSelectedPolygon ELSE sel]

addPolygon_v2 ==
    /\ LET newSides   == Len(polygons) + 3
           newPolygon == [id |-> DateNow(now), sides |-> newSides, frac |-> 0,
                          active |-> TRUE,
                          notes |-> [i \in 1..newSides |-> Null],
                          synthSettings |-> DefaultSynthSettings]
           R == Rendered_v2(Append(polygons, newPolygon), selectedPolygon,
                            selectedScale, rootNote)
       IN  /\ polygons' = R.polygons
           /\ selectedPolygon' = R.selectedPolygon
    /\ session' = AnimationEffect_v2(playhead, now)
    /\ edits' = edits + 1
    /\ lastOp' = NoOp("addPolygon_v2")
    /\ emitted' = <<>>
    /\ UNCHANGED <<selectedScale, rootNote, playhead, rpmRef, isManualJumpRef,
                   lastTriggerTimeRef, timeVars, engineVars, ghost, fnVars>>

\* The side count of a polygon in tenths
Tenths(polygon) == polygon.sides * 10 + polygon.frac

\* for (let i = p.sides; i < newSides; i++) newNotes.push(null), or
\* newNotes.splice(newSides) (the start index is truncated to an integer);
\* side counts in tenths
ResizeNotes(notes, oldSides, newSides) ==
    IF newSides > oldSides
    THEN notes \o [k \in 1..((newSides - oldSides + 9) \div 10) |-> Null]
    ELSE IF newSides < oldSides /\ newSides \div 10 < Len(notes)
    THEN SubSeq(notes, 1, newSides \div 10)
    ELSE notes

Resized(polygon, newSides) ==
    [polygon EXCEPT !.sides = newSides \div 10, !.frac = newSides % 10,
                    !.notes = ResizeNotes(polygon.notes, Tenths(polygon), newSides)]

\* updatePolygonSides(polygonId, newSides), newSides in tenths
updatePolygonSides(polygonId, newSides) ==
    /\ IF newSides < 30 \/ newSides > 120
       THEN UNCHANGED <<polygons, selectedPolygon, session>>
       ELSE LET R == Rendered_v2(
                        [p \in 1..Len(polygons) |->
                            IF polygons[p].id = polygonId
                            THEN Resized(polygons[p], newSides) ELSE polygons[p]],
                        IF selectedPolygon # <<>> /\ selectedPolygon[1].id = polygonId
                        THEN << Resized(selectedPolygon[1], newSides) >>
                        ELSE selectedPolygon,
                        selectedScale, rootNote)
            IN  /\ polygons' = R.polygons
                /\ selectedPolygon' = R.selectedPolygon
                /\ session' = AnimationEffect_v2(playhead, now)
    /\ edits' = edits + 1
    /\ lastOp' = [NoOp("updatePolygonSides") EXCEPT
                     !.call = [polygonId |-> polygonId, newSides |-> newSides]]
    /\ emitted' = <<>>
    /\ UNCHANGED <<selectedScale, rootNote, playhead, rpmRef, isManualJumpRef,
                   lastTriggerTimeRef, timeVars, engineVars, ghost, fnVars>>

\* setPolygons(prev => prev.filter(p => p.id !== polygon.id))
removeLayer(polygonId) ==
    /\ LET R == Rendered_v2(SelectSeq(polygons, LAMBDA q : q.id # polygonId),
                            selectedPolygon, selectedScale, rootNote)
       IN  /\ polygons' = R.polygons
           /\ selectedPolygon' = R.selectedPolygon
    /\ session' = AnimationEffect_v2(playhead, now)
    /\ edits' = edits + 1
    /\ lastOp' = [NoOp("removeLayer") EXCEPT !.call = [polygonId |-> polygonId]]
    /\ emitted' = <<>>
    /\ UNCHANGED <<selectedScale, rootNote, playhead, rpmRef, isManualJumpRef,
                   lastTriggerTimeRef, timeVars, engineVars, ghost, fnVars>>

\* newNotes[vertexIndex] = note (an index past the end extends the array)
SetNote_v2(polys, polygonId, vertexIndex, note) ==
    [p \in 1..Len(polys) |->
        IF polys[p].id = polygonId
        THEN [polys[p] EXCEPT !.notes = AssignNote(polys[p].notes, vertexIndex, note)]
        ELSE polys[p]]

\* (vertexAngleDegrees - 5 + 360) % 360 with vertexAngleDegrees =
\* (vertexIndex * 360 / sides - 90 + 360) % 360, rounded down to a
\* millidegree; sides in tenths
TargetAngle_v2(vertexIndex, sides) ==
    (((((vertexIndex * 3600000) \div sides) - 90000 + 360000) % 360000)
        - 5000 + 360000) % 360000

cycleNote_v2(polygonId, vertexIndex) ==
    /\ FindPolygon(polygonId) # 0
    /\ LET polygon     == polygons[FindPolygon(polygonId)]
           nextNote    == NextNote(NoteAtVertex(polygon, vertexIndex))
           targetAngle == TargetAngle_v2(vertexIndex, Tenths(polygon))
           newPlayhead == [playhead EXCEPT !.angle = targetAngle]
           E1 == playNoteWithPolygonSynth(Engine, now, nextNote, 1000,
                                          polygon.synthSettings, 5000)
           R  == Rendered_v2(SetNote_v2(polygons, polygonId, vertexIndex, nextNote),
                             IF selectedPolygon # <<>> /\ selectedPolygon[1].id = polygonId
                             THEN SetNote_v2(selectedPolygon, polygonId, vertexIndex, nextNote)
                             ELSE selectedPolygon,
                             selectedScale, rootNote)
       IN  /\ polygons' = R.polygons
           /\ selectedPolygon' = R.selectedPolygon
           /\ isManualJumpRef' = TRUE
           /\ playhead' = newPlayhead
           /\ SetEngine([E1 EXCEPT !.timers = @ \cup {JumpTimer(now + 500)}])
           /\ session' = AnimationEffect_v2(newPlayhead, now)
    /\ edits' = edits + 1
    /\ lastOp' = NoOp("cycleNote_v2")
    /\ emitted' = <<>>
    /\ UNCHANGED <<selectedScale, rootNote, rpmRef, lastTriggerTimeRef, now, ghost, fnVars>>

deleteNote_v2(polygonId, vertexIndex) ==
    /\ FindPolygon(polygonId) # 0
    /\ LET polygon     == polygons[FindPolygon(polygonId)]
           targetAngle == TargetAngle_v2(vertexIndex, Tenths(polygon))
           newPlayhead == [playhead EXCEPT !.angle = targetAngle]
           R  == Rendered_v2(SetNote_v2(polygons, polygonId, vertexIndex, Null),
                             IF selectedPolygon # <<>> /\ selectedPolygon[1].id = polygonId
                             THEN SetNote_v2(selectedPolygon, polygonId, vertexIndex, Null)
                             ELSE selectedPolygon,
                             selectedScale, rootNote)
       IN  /\ polygons' = R.polygons
           /\ selectedPolygon' = R.selectedPolygon
           /\ isManualJumpRef' = TRUE
           /\ playhead' = newPlayhead
           /\ timers' = timers \cup {JumpTimer(now + 500)}
           /\ session' = AnimationEffect_v2(newPlayhead, now)
    /\ edits' = edits + 1
    /\ lastOp' = NoOp("deleteNote_v2")
    /\ emitted' = <<>>
    /\ UNCHANGED <<selectedScale, rootNote, rpmRef, lastTriggerTimeRef, now, engineVars,
                   ghost, fnVars>>

\* onChange={(e) => setSelectedScale(e.target.value)} and the remap effect
setSelectedScale_v2(scale) ==
    /\ LET R == Rendered_v2(polygons, selectedPolygon, scale, rootNote)
       IN  /\ polygons' = R.polygons
           /\ selectedPolygon' = R.selectedPolygon
    /\ selectedScale' = scale
    /\ session' = AnimationEffect_v2(playhead, now)
    /\ edits' = edits + 1
    /\ lastOp' = NoOp("setSelectedScale_v2")
    /\ emitted' = <<>>
    /\ UNCHANGED <<rootNote, playhead, rpmRef, isManualJumpRef, lastTriggerTimeRef,
                   timeVars, engineVars, ghost, fnVars>>

\* onClick={() => setRootNote(note)} and the remap effect
setRootNote_v2(note) ==
    /\ LET R == Rendered_v2(polygons, selectedPolygon, selectedScale, note)
       IN  /\ polygons' = R.polygons
           /\ selectedPolygon' = R.selectedPolygon
    /\ rootNote' = note
    /\ session' = AnimationEffect_v2(playhead, now)
    /\ edits' = edits + 1
    /\ lastOp' = NoOp("setRootNote_v2")
    /\ emitted' = <<>>
    /\ UNCHANGED <<selectedScale, playhead, rpmRef, isManualJumpRef, lastTriggerTimeRef,
                   timeVars, engineVars, ghost, fnVars>>

-----------------------------------------------------------------------------
(* SpecLayers: a burst of layer and vertex edits on the stopped playhead    *)

MaxLayers    == 3      \* polygons on the canvas
MaxLayerTime == 2      \* the clock is followed for this many ms

\* Number(e.target.value) for the texts "" (the emptied field), "3", "3.5",
\* "4" and "13", in tenths
TypedSides == {0, 30, 35, 40, 130}

\* The vertices drawn for a polygon: for (let i = 0; i < polygon.sides; i++)
DrawnVertices(polygon) ==
    0..(polygon.sides + (IF polygon.frac > 0 THEN 1 ELSE 0) - 1)

AddLayer == edits < MaxEdits /\ Len(polygons) < MaxLayers /\ addPolygon_v2

TypeSides ==
    /\ edits < MaxEdits
    /\ \E p \in 1..Len(polygons), newSides \in TypedSides :
          updatePolygonSides(polygons[p].id, newSides)

RemoveLayer ==
    /\ edits < MaxEdits
    /\ \E p \in 1..Len(polygons) : removeLayer(polygons[p].id)

CycleNote_v2 ==
    /\ edits < MaxEdits
    /\ \E p \in 1..Len(polygons) : \E i \in DrawnVertices(polygons[p]) :
          cycleNote_v2(polygons[p].id, i)

DeleteNote_v2 ==
    /\ edits < MaxEdits
    /\ \E p \in 1..Len(polygons) : \E i \in DrawnVertices(polygons[p]) :
          deleteNote_v2(polygons[p].id, i)

SelectScale_v2 == edits < MaxEdits /\ \E scale \in {"Major", "Minor"} : setSelectedScale_v2(scale)

SelectRoot_v2 == edits < MaxEdits /\ \E note \in {"C", "D"} : setRootNote_v2(note)

\* A millisecond passes
Tick ==
    /\ NoTimerOverdue
    /\ now < MaxLayerTime
    /\ now' = now + 1
    /\ lastOp' = NoOp("time")
    /\ UNCHANGED <<appVars, schedVars, timers, engineVars, emitted, ghost, edits, fnVars>>

NextLayers ==
    \/ AddLayer
    \/ TypeSides
    \/ RemoveLayer
    \/ CycleNote_v2
    \/ DeleteNote_v2
    \/ SelectScale_v2
    \/ SelectRoot_v2
    \/ OpenEditPopup
    \/ closeEditPopup
    \/ Tick

SpecLayers == InitScale /\ [][NextLayers]_vars

\* The same variant while vertices are edited a few hundred ms apart, with
\* playback on (frames 100 ms apart, as delivered to a throttled page) or off
MaxCooldownTime == 700

CooldownFrame ==
    /\ now + 100 <= MaxCooldownTime
    /\ \E elapsed \in {16, 100} : Frame_v2(100, elapsed)

\* 100 ms pass with the playhead stopped
Wait ==
    /\ ~playhead.isPlaying
    /\ NoTimerOverdue
    /\ now + 100 <= MaxCooldownTime
    /\ now' = now + 100
    /\ audioGraph' = Collect(audioGraph, activeOscillators, now + 100)
    /\ lastOp' = NoOp("time")
    /\ UNCHANGED <<appVars, schedVars, timers, audioReady, activeOscillators, activeGains,
                   nextNoteId, emitted, ghost, edits, fnVars>>

NextCooldown ==
    \/ TogglePlay_v2
    \/ CycleNote_v2
    \/ DeleteNote_v2
    \/ CooldownFrame
    \/ Wait
    \/ FireTimer

SpecCooldown == Init /\ [][NextCooldown]_vars

\* The remap useEffect by itself.  Its dependencies are [selectedScale,
\* rootNote, polygons, selectedPolygon, scaleSystem]: scaleSystem is made by
\* createScaleSystem() in every render and updatedPolygons is a new array in
\* every run, so each render is followed by a run of the effect and each run
\* by setPolygons and a render.  lastOp.call.run counts the runs in a row.
MaxEffectRuns == 4

EffectRuns == IF lastOp.name = "remapEffect" THEN lastOp.call.run ELSE 0

RemapEffect ==
    /\ EffectRuns < MaxEffectRuns
    /\ LET R == updatePolygonNotesForNewScale(polygons, selectedPolygon, selectedScale,
                                              rootNote)
       IN  /\ polygons' = R.updatedPolygons
           /\ selectedPolygon' = IF R.updatedSelectedPolygon # <<>>
                                 THEN R.updatedSelectedPolygon ELSE selectedPolygon
    /\ session' = AnimationEffect_v2(playhead, now)
    /\ lastOp' = [NoOp("remapEffect") EXCEPT !.call = [run |-> EffectRuns + 1]]
    /\ emitted' = <<>>
    /\ UNCHANGED <<selectedScale, rootNote, playhead, rpmRef, isManualJumpRef,
                   lastTriggerTimeRef, timeVars, engineVars, ghost, edits, fnVars>>

NextRemapEffect ==
    \/ SelectScale_v2
    \/ SelectRoot_v2
    \/ CycleNote_v2
    \/ OpenEditPopup
    \/ RemapEffect

SpecRemapEffect == Init /\ [][NextRemapEffect]_vars

-----------------------------------------------------------------------------
(* The App variant with the threshold detector and the RPM slider           *)
(* (definitions with the suffix _v1)                                        *)

\* Math.max(50, (60 / rpmRef.current) * 1000 / polygons.length) in ms, as the
\* fraction num / den
MinInterval_v1(rpm, n) ==
    IF 60000 > 50 * rpm * n THEN [num |-> 60000, den |-> rpm * n]
    ELSE [num |-> 50, den |-> 1]

\* Math.max(100, (60 / currentRPM) * 1000 / 4) of the crossing detector
MinInterval(rpm) ==
    IF 15000 > 100 * rpm THEN [num |-> 15000, den |-> rpm]
    ELSE [num |-> 100, den |-> 1]

\* The fixed 100 of the variant with the RPM field
MinInterval_v2 == [num |-> 100, den |-> 1]

\* now - lastTrigger > minInterval
LongerThan(ms, interval) == ms * interval.den > interval.num

\* The body of the vertex loop; n is polygons.length
RECURSIVE CheckVertices_v1(_, _, _, _, _, _, _)
CheckVertices_v1(polygon, n, i, angle, tnow, rpm, S) ==
    IF i >= polygon.sides THEN S
    ELSE LET note   == polygon.notes[i + 1]
             noteId == NoteKey(polygon, i, note)
             has    == noteId \in DOMAIN S.ltt /\ S.ltt[noteId] # 0
             fire   == /\ NearVertex(angle, i, polygon.sides)
                       /\ note # Null
                       /\ (~has \/ LongerThan(tnow - S.ltt[noteId], MinInterval_v1(rpm, n)))
             S2 == IF fire
                   THEN [ltt    |-> (noteId :> tnow) @@ S.ltt,
                         engine |-> playNoteWithPolygonSynth(S.engine, tnow, note, 1000,
                                                             polygon.synthSettings, 5000),
                         out    |-> Append(S.out, [polygonId |-> polygon.id, vertex |-> i,
                                                   note |-> note, time |-> tnow])]
                   ELSE S
         IN  CheckVertices_v1(polygon, n, i + 1, angle, tnow, rpm, S2)

RECURSIVE checkNoteTriggers_v1(_, _, _, _, _, _)
checkNoteTriggers_v1(polys, p, angle, tnow, rpm, S) ==
    IF p > Len(polys) THEN S
    ELSE IF ~polys[p].active
         THEN checkNoteTriggers_v1(polys, p + 1, angle, tnow, rpm, S)
         ELSE checkNoteTriggers_v1(polys, p + 1, angle, tnow, rpm,
                  CheckVertices_v1(polys[p], Len(polys), 0, angle, tnow, rpm, S))

\* Mutant: the effect ignores its dependency, the loop outlives the pause
AnimationEffectKeepsRunning_v1(oldPlayhead, newPlayhead, sess, polys, t) ==
    IF sess # <<>> THEN sess
    ELSE IF ~newPlayhead.isPlaying THEN <<>>
    ELSE << [startTime |-> t, polygons |-> polys] >>

\* The animation useEffect with the dependency [playhead.isPlaying]; animate
\* keeps the checkNoteTriggers (and so the polygons) of the render that
\* started it
AnimationEffect_v1(oldPlayhead, newPlayhead, sess, polys, t) ==
    IF oldPlayhead.isPlaying = newPlayhead.isPlaying THEN sess
    ELSE IF ~newPlayhead.isPlaying THEN <<>>
    ELSE << [startTime |-> t, polygons |-> polys] >>

\* One requestAnimationFrame callback (animate)
Frame_v1(dt) ==
    /\ session # <<>>
    /\ NoTimerOverdue
    /\ now + dt <= MaxTime
    /\ \E R \in {checkNoteTriggers_v1(session[1].polygons, 1,
                                        AnimateAngle(now + dt, session[1].startTime, rpmRef),
                                        now + dt, rpmRef,
                                        [ltt |-> lastTriggerTimeRef, engine |-> Engine,
                                         out |-> <<>>])} :
          /\ now' = now + dt
          /\ lastTriggerTimeRef' = R.ltt
          /\ SetEngine([R.engine EXCEPT
                          !.graph = Collect(R.engine.graph, R.engine.oscs, now + dt)])
          /\ playhead' = [playhead EXCEPT
                             !.angle = AnimateAngle(now + dt, session[1].startTime, rpmRef)]
          /\ emitted' = R.out
    /\ lastOp' = [NoOp("animate_v1") EXCEPT
                     !.call = [angle |-> playhead.angle, ltt |-> lastTriggerTimeRef,
                               n |-> Len(session[1].polygons)]]
    /\ UNCHANGED <<polygons, selectedPolygon, selectedScale, rootNote, rpmRef,
                   isManualJumpRef, session, ghost, edits, fnVars>>

togglePlay_v1 ==
    LET newPlayhead == [playhead EXCEPT !.isPlaying = ~playhead.isPlaying]
    IN  /\ edits' = edits + 1
        /\ playhead' = newPlayhead
        /\ session' = AnimationEffect_v1(playhead, newPlayhead, session, polygons, now)
        /\ lastOp' = NoOp("togglePlay_v1")
        /\ emitted' = <<>>
        /\ UNCHANGED <<polygons, selectedPolygon, selectedScale, rootNote, rpmRef,
                       isManualJumpRef, lastTriggerTimeRef, timeVars, engineVars, ghost,
                       fnVars>>

resetPlayhead_v1 ==
    LET newPlayhead == [playhead EXCEPT !.angle = 0, !.isPlaying = FALSE]
    IN  /\ edits' = edits + 1
        /\ playhead' = newPlayhead
        /\ session' = AnimationEffect_v1(playhead, newPlayhead, session, polygons, now)
        /\ lastOp' = NoOp("resetPlayhead_v1")
        /\ emitted' = <<>>
        /\ UNCHANGED <<polygons, selectedPolygon, selectedScale, rootNote, rpmRef,
                       isManualJumpRef, lastTriggerTimeRef, timeVars, engineVars, ghost,
                       fnVars>>

\* updateRPM and the effect that copies playhead.rpm into rpmRef
updateRPM_v1(rpm) ==
    /\ edits' = edits + 1
    /\ playhead' = [playhead EXCEPT !.rpm = rpm]
    /\ rpmRef' = rpm
    /\ lastOp' = NoOp("updateRPM_v1")
    /\ emitted' = <<>>
    /\ UNCHANGED <<polygons, selectedPolygon, selectedScale, rootNote, isManualJumpRef,
                   lastTriggerTimeRef, session, timeVars, engineVars, ghost, fnVars>>

addPolygon_v1 ==
    /\ LET newSides   == Len(polygons) + 3
           newPolygon == [id |-> DateNow(now), sides |-> newSides, frac |-> 0,
                          active |-> TRUE,
                          notes |-> [i \in 1..newSides |-> Null],
                          synthSettings |-> DefaultSynthSettings]
       IN  polygons' = Append(polygons, newPolygon)
    /\ edits' = edits + 1
    /\ lastOp' = NoOp("addPolygon_v1")
    /\ emitted' = <<>>
    /\ UNCHANGED <<selectedPolygon, selectedScale, rootNote, playhead, schedVars, timeVars,
                   engineVars, ghost, fnVars>>

\* cycleNote: the new note, the manual jump and the preview voice
cycleNote_v1(polygonId, vertexIndex) ==
    /\ FindPolygon(polygonId) # 0
    /\ LET polygon     == polygons[FindPolygon(polygonId)]
           nextNote    == NextNote(NoteAtVertex(polygon, vertexIndex))
           targetAngle == TargetAngle(vertexIndex, polygon.sides)
           E1 == playNoteWithPolygonSynth(Engine, now, nextNote, 1000,
                                          polygon.synthSettings, 5000)
       IN  /\ polygons' = SetNote(polygons, polygonId, vertexIndex, nextNote)
           /\ selectedPolygon' =
                 IF selectedPolygon # <<>> /\ selectedPolygon[1].id = polygonId
                 THEN SetNote(selectedPolygon, polygonId, vertexIndex, nextNote)
                 ELSE selectedPolygon
           /\ isManualJumpRef' = TRUE
           /\ playhead' = [playhead EXCEPT !.angle = targetAngle]
           /\ SetEngine([E1 EXCEPT !.timers = @ \cup {JumpTimer(now + 500)}])
    /\ edits' = edits + 1
    /\ lastOp' = NoOp("cycleNote_v1")
    /\ emitted' = <<>>
    /\ UNCHANGED <<selectedScale, rootNote, rpmRef, lastTriggerTimeRef, session, now, ghost,
                   fnVars>>

\* deleteNote: the vertex loses its pitch; nothing else is touched
deleteNote_v1(polygonId, vertexIndex) ==
    /\ FindPolygon(polygonId) # 0
    /\ polygons' = SetNote(polygons, polygonId, vertexIndex, Null)
    /\ selectedPolygon' =
          IF selectedPolygon # <<>> /\ selectedPolygon[1].id = polygonId
          THEN SetNote(selectedPolygon, polygonId, vertexIndex, Null)
          ELSE selectedPolygon
    /\ edits' = edits + 1
    /\ lastOp' = NoOp("deleteNote_v1")
    /\ emitted' = <<>>
    /\ UNCHANGED <<selectedScale, rootNote, playhead, schedVars, timeVars, engineVars,
                   ghost, fnVars>>

-----------------------------------------------------------------------------
(* SpecThreshold: playback of that variant with slider moves, a second      *)
(* polygon and note edits                                                   *)

\* followed for a few frames of 16 ms
AnimationFrame_v1 == now + 16 <= MaxSessionTime /\ Frame_v1(16)

TogglePlay_v1 == edits < MaxEdits /\ togglePlay_v1

ResetPlayhead_v1 == edits < MaxEdits /\ resetPlayhead_v1

MoveSlider_v1 == edits < MaxEdits /\ \E rpm \in SliderRpm : updateRPM_v1(rpm)

AddPolygon_v1 == edits < MaxEdits /\ Len(polygons) < MaxPolygons /\ addPolygon_v1

CycleNote_v1 ==
    /\ edits < MaxEdits
    /\ \E p \in 1..Len(polygons) : \E i \in 0..(polygons[p].sides - 1) :
          cycleNote_v1(polygons[p].id, i)

NextThreshold ==
    \/ TogglePlay_v1
    \/ ResetPlayhead_v1
    \/ MoveSlider_v1
    \/ AddPolygon_v1
    \/ CycleNote_v1
    \/ AnimationFrame_v1

SpecThreshold == Init /\ [][NextThreshold]_vars

\* The same variant while notes are edited and deleted and a polygon is added
\* during playback
DeleteNote_v1 ==
    /\ edits < MaxEdits
    /\ \E p \in 1..Len(polygons) : \E i \in 0..(polygons[p].sides - 1) :
          deleteNote_v1(polygons[p].id, i)

NextLiveEdit ==
    \/ TogglePlay_v1
    \/ AddPolygon_v1
    \/ CycleNote_v1
    \/ DeleteNote_v1
    \/ AnimationFrame_v1

SpecLiveEdit == Init /\ [][NextLiveEdit]_vars

\* Clicks on the canvas and on "Add Polygon" with up to MaxLayers polygons;
\* two clicks between two frames read the same Date.now()
AddLayer_v1 == edits < MaxEdits /\ Len(polygons) < MaxLayers /\ addPolygon_v1

NextClicks ==
    \/ TogglePlay_v1
    \/ AddLayer_v1
    \/ CycleNote_v1
    \/ DeleteNote_v1
    \/ AnimationFrame_v1

SpecClicks == Init /\ [][NextClicks]_vars

-----------------------------------------------------------------------------
(* SpecEnvelope: the gain events that playNoteWithPolygonSynth and playNote *)
(* submit for one voice, for several start times, durations, volumes and    *)
(* envelope settings                                                        *)

MaxStartTime == 250

StartTimes == {0, MaxStartTime}

EnvelopeDurations == {500, 1000, 4000}

EnvelopeVolumes == {3000, 5000}

EnvelopeSettings ==
    { DefaultSynthSettings,
      [enabled |-> TRUE, attack |-> 500, decay |-> 1000, sustain |-> 50, release |-> 2000],
      [enabled |-> TRUE, attack |-> 0, decay |-> 0, sustain |-> 0, release |-> 0],
      [enabled |-> TRUE, attack |-> 100, decay |-> 200, sustain |-> 70, release |-> 700],
      [enabled |-> TRUE, attack |-> 10, decay |-> 90, sustain |-> 100, release |-> 400] }

\* the ADSR block of playNoteWithPolygonSynth
ApplyPolygonEnvelope ==
    /\ fnOut.method = ""
    /\ fnOut' = [method  |-> "playNoteWithPolygonSynth",
                 attack  |-> OrDefault(fnIn.polygonSettings.attack, 10),
                 decay   |-> OrDefault(fnIn.polygonSettings.decay, 100),
                 sustain |-> OrDefault(fnIn.polygonSettings.sustain, 80),
                 release |-> OrDefault(fnIn.polygonSettings.release, 300),
                 volume  |-> fnIn.volume,
                 events  |-> PolygonEnvelope(fnIn.T, fnIn.duration, fnIn.polygonSettings,
                                             fnIn.volume)]
    /\ UNCHANGED <<appVars, schedVars, timeVars, engineVars, obsVars, fnIn>>

\* the ADSR block of playNote with the default settings and the caller's volume
ApplyBasicEnvelope ==
    /\ fnOut.method = ""
    /\ LET synthSettings == BasicSynthSettings(fnIn.volume)
       IN  fnOut' = [method  |-> "playNote",
                     attack  |-> synthSettings.attack,
                     decay   |-> synthSettings.decay,
                     sustain |-> synthSettings.sustain,
                     release |-> synthSettings.release,
                     volume  |-> synthSettings.volume,
                     events  |-> BasicEnvelope(fnIn.T, fnIn.duration, synthSettings)]
    /\ UNCHANGED <<appVars, schedVars, timeVars, engineVars, obsVars, fnIn>>

InitEnvelope ==
    /\ audioReady = TRUE
    /\ AppInit /\ SchedInit /\ EngineInit /\ ObsInit
    /\ \E T \in StartTimes, duration \in EnvelopeDurations,
          polygonSettings \in EnvelopeSettings, volume \in EnvelopeVolumes :
          fnIn = [T |-> T, duration |-> duration, polygonSettings |-> polygonSettings,
                  volume |-> volume]
    /\ fnOut = [method |-> "", events |-> <<>>]

NextEnvelope ==
    \/ ApplyPolygonEnvelope
    \/ ApplyBasicEnvelope

SpecEnvelope == InitEnvelope /\ [][NextEnvelope]_vars

-----------------------------------------------------------------------------
(* SpecInterval: the minimum re-trigger interval of the threshold detector  *)
(* and of the crossing detector, computed for two settings of the RPM       *)
(* slider and two lengths of the polygon list                               *)

MaxPolygonCount == 3

\* the initial RPM and positions of the slider (min 30, max 300, step 10)
RpmInputs == {15, 30, 60, 150, 300}

\* const minInterval = Math.max(50, (60 / rpmRef.current) * 1000 / polygons.length)
ApplyMinInterval_v1 ==
    /\ fnOut.variant = ""
    /\ fnOut' = [variant |-> "threshold",
                 first   |-> MinInterval_v1(fnIn.rpm, fnIn.count),
                 second  |-> MinInterval_v1(fnIn.rpm2, fnIn.count2)]
    /\ UNCHANGED <<appVars, schedVars, timeVars, engineVars, obsVars, fnIn>>

\* const minInterval = Math.max(100, (60 / currentRPM) * 1000 / 4)
ApplyMinInterval ==
    /\ fnOut.variant = ""
    /\ fnOut' = [variant |-> "crossing",
                 first   |-> MinInterval(fnIn.rpm),
                 second  |-> MinInterval(fnIn.rpm2)]
    /\ UNCHANGED <<appVars, schedVars, timeVars, engineVars, obsVars, fnIn>>

InitInterval ==
    /\ audioReady = FALSE
    /\ AppInit /\ SchedInit /\ EngineInit /\ ObsInit
    /\ \E rpm \in RpmInputs, rpm2 \in RpmInputs,
          count \in 1..MaxPolygonCount, count2 \in 1..MaxPolygonCount :
          fnIn = [rpm |-> rpm, count |-> count, rpm2 |-> rpm2, count2 |-> count2]
    /\ fnOut = [variant |-> "", first |-> <<>>, second |-> <<>>]

NextInterval ==
    \/ ApplyMinInterval_v1
    \/ ApplyMinInterval

SpecInterval == InitInterval /\ [][NextInterval]_vars

-----------------------------------------------------------------------------
(* Claims about playback                                                    *)

\* The rotation of two animation frames at the given RPM, in millidegrees
TwoFrames(rpm) == 2 * 17 * rpm * 6

\* A trigger of a vertex that has triggered before in this playback, after
\* the playhead has turned less than a revolution since
EarlyRepeat(rpm) ==
    \E j \in 1..Len(emitted) :
        emitted[j].again /\ emitted[j].turned < 360000 - TwoFrames(rpm)

\* A vertex with a pitch on an active polygon that the playhead has turned
\* past for more than a revolution without a trigger
Overdue(rpm) ==
    \E p \in 1..Len(polygons) : \E i \in 0..(polygons[p].sides - 1) :
        /\ polygons[p].active
        /\ polygons[p].notes[i + 1] # Null
        /\ RotOf(<<polygons[p].id, i>>) > 360000 + TwoFrames(rpm)

\* C1: during uninterrupted playback at 60 RPM and 60 frames per second every
\* vertex with a pitch triggers exactly once per revolution: a vertex never
\* triggers again before the playhead has turned a full revolution since its
\* last trigger, and never stays silent for more than a revolution.
C1_ExactlyOncePerRevolution ==
    (playhead.isPlaying /\ ghost.steady /\ ghost.rpmSteady /\ rpmRef = 60) =>
        (~EarlyRepeat(60) /\ ~Overdue(60))

\* A trigger of a vertex that had triggered before the RPM was changed, after
\* the playhead has turned less than a revolution since that trigger
RepeatOfPassed(rpm) ==
    \E j \in 1..Len(emitted) :
        /\ <<emitted[j].polygonId, emitted[j].vertex>> \in ghost.passed
        /\ emitted[j].again
        /\ emitted[j].turned < 360000 - TwoFrames(rpm)

\* C2: after the RPM was changed during playback, part-way through a
\* revolution, no vertex that the playhead had passed (and triggered) before
\* the change triggers again before the playhead has turned a full
\* revolution since that trigger.
C2_NoRefireAfterRpmChange ==
    (playhead.isPlaying /\ ghost.steady /\ ~ghost.rpmSteady) => ~RepeatOfPassed(rpmRef)

-----------------------------------------------------------------------------
(* Claims about scales and remapping                                        *)

\* The chromatic position of a pitch class, -1 if it is none
Pos(note) == IndexOf(noteOrder, note)

\* Membership of a pitch in the scale on a root, from the interval pattern
InScale(note, scale, root) ==
    /\ Pos(note) >= 0
    /\ \E k \in 1..Len(scaleIntervals(scale)) :
          (Pos(note) - Pos(root) + 12) % 12 = scaleIntervals(scale)[k] % 12

AllPitchesInScale ==
    \A p \in 1..Len(polygons) : \A i \in 1..Len(polygons[p].notes) :
        polygons[p].notes[i] # Null => InScale(polygons[p].notes[i], selectedScale, rootNote)

ScaleOrRootChanged ==
    lastOp.name \in {"handleScaleChange", "handleRootNoteChange",
                     "setSelectedScale", "setRootNote"}

\* C3: whenever the selected scale or the root note has been changed, every
\* non-empty vertex pitch of every polygon is a member of the scale on the
\* new root.
C3_PitchesInScaleAfterChange == ScaleOrRootChanged => AllPitchesInScale

\* The first and the following result of updatePolygonNotesForNewScale
Once  == fnOut.results[1]
Twice == fnOut.results[2]

\* C4: applying updatePolygonNotesForNewScale a second time with the same
\* scale and root to its own output gives the same notes again.
C4_RemapIdempotent ==
    (fnIn # <<>> /\ Len(fnOut.results) >= 2) =>
        /\ Twice.updatedPolygons = Once.updatedPolygons
        /\ Twice.updatedSelectedPolygon = Once.updatedSelectedPolygon

C4_Witness ==
    /\ fnIn # <<>> /\ Len(fnOut.results) >= 2
    /\ Once.updatedPolygons # fnIn.polygons
    /\ fnIn.selectedPolygon # <<>>
    /\ Twice.updatedPolygons = Once.updatedPolygons

\* The input and output pitch of vertex i of the triangle
InNote(i)  == fnIn.polygons[1].notes[i]
OutNote(i) == Once.updatedPolygons[1].notes[i]

\* C5: a pitch that is already in the target scale is returned unchanged and
\* an empty vertex stays empty.
C5_RemapStable ==
    (fnIn # <<>> /\ Len(fnOut.results) >= 1) =>
        \A i \in 1..3 :
            /\ InNote(i) = Null => OutNote(i) = Null
            /\ (InNote(i) # Null /\ InScale(InNote(i), fnIn.scale, fnIn.root))
                  => OutNote(i) = InNote(i)

C5_Witness ==
    /\ fnIn # <<>> /\ Len(fnOut.results) >= 1
    /\ InNote(1) = "E" /\ fnIn.scale = "Major" /\ fnIn.root = "D"
    /\ OutNote(1) = "E"
    /\ InNote(3) = Null /\ OutNote(3) = Null

Dist(a, b) == Abs(Pos(a) - Pos(b))

\* The target scale as the run's inputs define it, built from the pattern
TargetScale ==
    [k \in 1..Len(scaleIntervals(fnIn.scale)) |->
        noteOrder[((Pos(fnIn.root) + scaleIntervals(fnIn.scale)[k]) % 12) + 1]]

\* C6: a non-empty pitch outside the target scale is replaced by the member
\* of the scale at the least absolute distance in the order C..B, and of
\* several members at that distance by the one that comes first in the scale.
C6_RemapNearestFirst ==
    (fnIn # <<>> /\ Len(fnOut.results) >= 1) =>
        \A i \in 1..3 :
            (InNote(i) # Null /\ ~InScale(InNote(i), fnIn.scale, fnIn.root)) =>
                \E k \in 1..Len(TargetScale) :
                    /\ OutNote(i) = TargetScale[k]
                    /\ \A m \in 1..Len(TargetScale) :
                          Dist(InNote(i), TargetScale[k]) <= Dist(InNote(i), TargetScale[m])
                    /\ \A m \in 1..(k - 1) :
                          Dist(InNote(i), TargetScale[k]) < Dist(InNote(i), TargetScale[m])

\* C# in D Minor: D (first in the scale) and C are both one step away
C6_Witness ==
    /\ fnIn # <<>> /\ Len(fnOut.results) >= 1
    /\ InNote(1) = "C#" /\ fnIn.scale = "Minor" /\ fnIn.root = "D"
    /\ OutNote(1) = "D"
    /\ Dist("C#", "C") = Dist("C#", "D")
    /\ Includes(TargetScale, "C")

\* The pitch class n chromatic steps above a pitch class, inside the octave
StepsUp(note, n) == noteOrder[((Pos(note) + n) % 12) + 1]

\* C7: getScaleNotes returns for the k-th interval of the pattern the pitch
\* class at position (index(root) + interval) mod 12; Major on C is
\* C D E F G A B, and the scale on the root two steps higher is every note
\* moved up two chromatic steps inside the octave.
C7_ScaleFromPattern ==
    (fnIn # <<>> /\ fnOut.scaleNotes # <<>>) =>
        LET pattern == scaleIntervals(fnIn.scale)
            notes   == fnOut.scaleNotes
        IN  /\ Len(notes) = Len(pattern)
            /\ \A k \in 1..Len(pattern) :
                  /\ notes[k] \in Notes
                  /\ Pos(notes[k]) = (Pos(fnIn.root) + pattern[k]) % 12
            /\ (fnIn.scale = "Major" /\ fnIn.root = "C")
                  => notes = <<"C", "D", "E", "F", "G", "A", "B">>
            /\ getScaleNotes(fnIn.scale, StepsUp(fnIn.root, 2))
                  = [k \in 1..Len(notes) |-> StepsUp(notes[k], 2)]

\* Major on B: the second note wraps from position 13 to C#
C7_Witness ==
    /\ fnIn # <<>>
    /\ fnIn.scale = "Major" /\ fnIn.root = "B"
    /\ fnOut.scaleNotes = <<"B", "C#", "D#", "E", "F#", "G#", "A#">>

-----------------------------------------------------------------------------
(* Claims about the voice engine (checked under SpecVoice)                  *)

\* The envelope contract for one voice v started at v.T
EnvelopeWellFormed(v) ==
    LET ev == v.events
        n  == Len(ev)
    IN  /\ \A i \in 1..(n - 1) : ev[i].time <= ev[i + 1].time
        /\ \A i \in 3..n : ev[i].time >= v.T + v.attack
        /\ \A i \in 1..n : ev[i].time <= v.T + v.duration + v.release
        /\ (v.attack + v.decay >= v.duration) =>
              /\ \A i \in 1..n : v.T <= ev[i].time /\ ev[i].time <= v.T + v.duration
              /\ ev[n] = LinearRampToValueAtTime(0, v.T + v.duration)

\* C8: for every attack, decay, release and duration the gain events of a voice
\* are submitted with non-decreasing times, no decay or release segment starts
\* before the attack ends, no event lies after T + duration + release, and when
\* attack + decay >= duration the schedule is a fade to zero inside [T, T+duration].
C8_EnvelopeOrdered ==
    \A id \in DOMAIN audioGraph : EnvelopeWellFormed(audioGraph[id])

\* C9: after stopAllNotes both live-voice maps are empty and no error left the
\* call; on an empty registry the call changes nothing of the engine.
C9_StopAllEmptiesRegistry ==
    lastOp.name = "stopAllNotes" =>
        /\ activeOscillators = {}
        /\ activeGains = {}
        /\ ~lastOp.propagated
        /\ (lastOp.engineBefore.oscs = {} /\ lastOp.engineBefore.gains = {})
              => Engine = lastOp.engineBefore

C9_Witness ==
    /\ lastOp.name = "stopAllNotes"
    /\ Cardinality(lastOp.engineBefore.oscs) = 2
    /\ Cardinality(lastOp.engineBefore.gains) = 2

\* C10: when stop() raises for some registered oscillator, stopAllNotes has
\* still called stop() on every registered oscillator, has cleared the registry
\* and lets no error out.
C10_StopAllToleratesErrors ==
    (lastOp.name = "stopAllNotes" /\ lastOp.throwers # {}) =>
        /\ lastOp.attempted = lastOp.engineBefore.oscs
        /\ activeOscillators = {}
        /\ activeGains = {}
        /\ ~lastOp.propagated
        /\ \A id \in lastOp.engineBefore.oscs \ lastOp.throwers :
              id \in DOMAIN audioGraph => audioGraph[id].stopAt <= now

\* the first registered oscillator raised, a later one was still stopped
C10_Witness ==
    /\ lastOp.name = "stopAllNotes"
    /\ lastOp.engineBefore.oscs = {1, 2}
    /\ lastOp.throwers = {1}
    /\ 2 \in lastOp.attempted
    /\ 2 \in DOMAIN audioGraph /\ audioGraph[2].stopAt = now
    /\ lastOp.engineBefore.graph[2].stopAt > now

-----------------------------------------------------------------------------
(* Claims about pausing (checked under SpecTransport)                       *)

\* C11: pausing playback (togglePlay while playing) or resetting the playhead
\* leaves the live-voice registry, every scheduled voice and every cleanup
\* timer exactly as they were: the voices triggered before stay registered.
C11_PauseKeepsVoices ==
    (lastOp.name \in {"togglePlay", "resetPlayhead"}) => Engine = lastOp.engineBefore

\* paused with a voice that a frame had triggered still registered
C11_Witness ==
    /\ lastOp.name = "togglePlay"
    /\ ~playhead.isPlaying
    /\ activeOscillators # {}
    /\ \E id \in activeOscillators : audioGraph[id].stopAt > now

-----------------------------------------------------------------------------
(* Claims about the play calls (checked under SpecCalls)                    *)

PlayCall ==
    lastOp.name \in {"playNote", "playNoteWithPolygonSynth",
                     "SynthEngine.playNoteWithPolygonSynth"}

C13_FailedBuildLeavesNothing ==
    (PlayCall /\ (lastOp.call.fault # "none" \/ ~audioReady)) =>
        /\ ~lastOp.propagated
        /\ activeOscillators = lastOp.engineBefore.oscs
        /\ activeGains = lastOp.engineBefore.gains
        /\ DOMAIN audioGraph \subseteq DOMAIN lastOp.engineBefore.graph
        /\ timers = lastOp.engineBefore.timers

\* the envelope scheduling of a known pitch raised while a voice is registered
C13_Witness ==
    /\ lastOp.name = "playNoteWithPolygonSynth"
    /\ lastOp.call.noteName = "A"
    /\ lastOp.call.enabled
    /\ lastOp.call.fault = "setValueAtTime"
    /\ audioReady
    /\ lastOp.said = << <<"error", "Error playing note with polygon synth">> >>
    /\ activeOscillators # {}

\* C14: with enabled = false in the polygon's synth configuration
\* playNoteWithPolygonSynth does nothing: no oscillator is started and the
\* live-voice registry is unchanged.
C14_DisabledIsNoOp ==
    (lastOp.name \in {"playNoteWithPolygonSynth", "SynthEngine.playNoteWithPolygonSynth"}
        /\ ~lastOp.call.enabled)
      => Engine = lastOp.engineBefore

-----------------------------------------------------------------------------
(* Claims about the cleanup timers (checked under SpecVoice and FairVoice)  *)

CleanupFired == lastOp.name = "timer" /\ lastOp.call.kind = "cleanup"

C17_RegistryEventuallyEmpty == <>[](activeOscillators = {} /\ activeGains = {})

\* every voice of the run was registered and the last one has been removed
\* by its timer
C17_Witness ==
    /\ CleanupFired
    /\ nextNoteId > MaxVoices
    /\ lastOp.engineBefore.oscs # {}
    /\ activeOscillators = {} /\ activeGains = {}
    /\ timers = {}

\* C18: a cleanup timer removes its own voice's two entries and nothing else,
\* raises no error, and on a registry that stopAllNotes had cleared it
\* changes nothing.
C18_CleanupRemovesOnlyOwnEntry ==
    CleanupFired =>
        /\ activeOscillators = lastOp.engineBefore.oscs \ {lastOp.call.id}
        /\ activeGains = lastOp.engineBefore.gains \ {lastOp.call.id}
        /\ audioGraph = lastOp.engineBefore.graph
        /\ timers = lastOp.engineBefore.timers \ {lastOp.call}
        /\ ~lastOp.propagated
        /\ lastOp.call.id \notin lastOp.engineBefore.oscs
              => (activeOscillators = lastOp.engineBefore.oscs
                    /\ activeGains = lastOp.engineBefore.gains)

\* the timer of a voice that stopAllNotes had removed fires while a later
\* voice is registered
C18_Witness ==
    /\ CleanupFired
    /\ lastOp.call.id \notin lastOp.engineBefore.oscs
    /\ lastOp.engineBefore.oscs # {}
    /\ activeOscillators = lastOp.engineBefore.oscs

-----------------------------------------------------------------------------
(* Claims about the RPM field (checked under SpecTypedRpm)                  *)

\* C15: while the RPM is zero or negative a frame callback leaves the playhead
\* angle as it was and emits no trigger.
C15_NonPositiveRpmHoldsStill ==
    (lastOp.name = "animate_v2" /\ playhead.rpm <= 0) =>
        /\ playhead.angle = lastOp.call.angle
        /\ emitted = <<>>

-----------------------------------------------------------------------------
(* Claims about the polygon collection (checked under SpecLayers)           *)

\* C19: in every reachable state the notes sequence of every polygon is as
\* long as its side count.
C19_NotesLengthIsSides ==
    \A p \in 1..Len(polygons) :
        Len(polygons[p].notes) * 10 = Tenths(polygons[p])

\* C20: in every reachable state no two polygons of the collection have the
\* same identifier, also after two additions within the same millisecond.
C20_UniqueIds ==
    \A p, q \in 1..Len(polygons) : p # q => polygons[p].id # polygons[q].id

-----------------------------------------------------------------------------
(* Claims about the playhead angle                                          *)

\* C21: in every reachable state the playhead angle is at least 0 and less
\* than 360 degrees, whoever wrote it last (a frame, resetPlayhead or the
\* manual jump of a note edit).
C21_AngleInRange == playhead.angle >= 0 /\ playhead.angle < 360000

-----------------------------------------------------------------------------
(* Claims about scale names and colours (checked under SpecColors)          *)

\* C22: getScaleNotes called with a scale name that is not one of the five
\* defined patterns raises no error and returns the notes of the Major
\* pattern on the same root.
C22_UnknownScaleFallsBackToMajor ==
    (fnOut.scaleNotes # <<>> /\ fnIn.scale \notin ScaleNames)
        => fnOut.scaleNotes = getScaleNotes("Major", fnIn.root)

\* The 1-based scale degrees at which the pattern of the scale name, counted
\* up from the root, reaches the note
DegreesOf(note, scale, root) ==
    {d \in 1..Len(scaleIntervals(scale)) : StepsUp(root, scaleIntervals(scale)[d]) = note}

-----------------------------------------------------------------------------
(* Claims about the manual jump and the stopped playhead                    *)

FrameOps == {"frame", "animate_v1", "animate_v2"}

\* A manual jump was made less than the cooldown before the time t
InCooldown(t) == \E j \in timers : j.kind = "jump" /\ j.due > t

\* A frame callback that runs inside the cooldown of a manual jump leaves the
\* angle alone and submits no trigger
FramesHoldDuringCooldown ==
    (lastOp'.name \in FrameOps /\ InCooldown(now'))
        => (playhead'.angle = playhead.angle /\ emitted' = <<>>)

\* Outside a cooldown the animation loop runs exactly when playback is on
LoopFollowsPlayback ==
    ~InCooldown(now) => ((session # <<>>) <=> playhead.isPlaying)

\* C24: after a manual jump (a note edit sets the angle and raises the flag)
\* frame callbacks leave the angle alone and submit no trigger until the
\* cooldown of 500 ms is over; after it the loop advances again if playback
\* is on and is stopped if playback was paused.
C24_JumpHoldsPlayhead == [][FramesHoldDuringCooldown]_vars /\ []LoopFollowsPlayback

JumpOrResetOps ==
    {"resetPlayhead", "resetPlayhead_v1", "cycleNote", "cycleNote_v1", "cycleNote_v2",
     "deleteNote_v2"}

\* What a step may do while playback is off
StoppedStep ==
    ~playhead.isPlaying
        => /\ lastOp'.name \notin FrameOps
           /\ emitted' = <<>>
           /\ lastTriggerTimeRef' = lastTriggerTimeRef
           /\ playhead'.angle # playhead.angle => lastOp'.name \in JumpOrResetOps

\* C25: while isPlaying is false no frame callback runs (none of the stopped
\* session either), the scheduler triggers nothing, and the angle changes
\* only through resetPlayhead or a manual jump.
C25_StoppedIsFrozen == [][StoppedStep]_vars

\* paused in the middle of a rotation, then a note edit moved the playhead
C25_Witness ==
    /\ ~playhead.isPlaying
    /\ session = <<>>
    /\ lastOp.name = "cycleNote_v1"
    /\ now > 0
    /\ playhead.angle # 0

-----------------------------------------------------------------------------
(* Claims about the crossing detector and the re-trigger interval           *)

\* The angle of vertex i of a polygon with the given number of sides lies in
\* the interval swept forward from lastAngle (exclusive) to angle
\* (inclusive), through 360 when angle is the smaller one; nothing is swept
\* when the two are equal
InSwept(i, sides, lastAngle, angle) ==
    IF lastAngle < angle
    THEN lastAngle * sides < i * 360000 /\ i * 360000 <= angle * sides
    ELSE IF angle < lastAngle
         THEN lastAngle * sides < i * 360000 \/ i * 360000 <= angle * sides
         ELSE FALSE

SidesOf(polygonId) == polygons[FindPolygon(polygonId)].sides

\* A frame of the crossing detector triggers only vertices of the swept
\* interval, and every vertex of it that holds a note not triggered before
CrossingIsSweep ==
    lastOp'.name = "frame"
        => /\ \A j \in 1..Len(emitted') :
                  InSwept(emitted'[j].vertex, SidesOf(emitted'[j].polygonId),
                          session[1].lastAngle, playhead'.angle)
           /\ \A p \in 1..Len(polygons) : \A i \in 0..(polygons[p].sides - 1) :
                  (/\ polygons[p].active
                   /\ polygons[p].notes[i + 1] # Null
                   /\ NoteKey(polygons[p], i, polygons[p].notes[i + 1])
                         \notin DOMAIN lastTriggerTimeRef
                   /\ InSwept(i, polygons[p].sides, session[1].lastAngle, playhead'.angle))
                      => \E j \in 1..Len(emitted') :
                            /\ emitted'[j].polygonId = polygons[p].id
                            /\ emitted'[j].vertex = i

\* C26: checkNoteTriggers(angle, lastAngle) declares a vertex crossed exactly
\* when its angle lies in the interval swept from lastAngle (exclusive) to
\* angle (inclusive), wrapping through 360; with lastAngle = angle nothing is
\* swept and no vertex is crossed.
C26_CrossedIffSwept == [][CrossingIsSweep]_vars

TriggerKey(e) == <<e.polygonId, e.vertex, e.note>>

\* The minimum interval the frame that has just run had in force
IntervalInForce ==
    IF lastOp'.name = "animate_v1" THEN MinInterval_v1(rpmRef, Len(session[1].polygons))
    ELSE IF lastOp'.name = "frame" THEN MinInterval(rpmRef)
    ELSE MinInterval_v2

\* What a frame does to the triggers and the last-trigger times of the keys
FrameDedups ==
    lastOp'.name \in FrameOps
        => /\ \A j \in 1..Len(emitted') :
                  LET k == TriggerKey(emitted'[j])
                  IN  /\ k \in DOMAIN lastTriggerTimeRef
                            => LongerThan(now' - lastTriggerTimeRef[k], IntervalInForce)
                      /\ k \in DOMAIN lastTriggerTimeRef' /\ lastTriggerTimeRef'[k] = now'
                      /\ \A h \in 1..Len(emitted') : h # j => TriggerKey(emitted'[h]) # k
           /\ \A k \in DOMAIN lastTriggerTimeRef' :
                  (\A j \in 1..Len(emitted') : TriggerKey(emitted'[j]) # k)
                      => k \in DOMAIN lastTriggerTimeRef
                         /\ lastTriggerTimeRef'[k] = lastTriggerTimeRef[k]

\* C27: for every key (polygon, vertex, pitch) a voice is emitted only when
\* more than the minimum interval in force has passed since the key's last
\* trigger; a suppressed detection emits nothing and leaves the key's
\* timestamp unchanged, and every emitted trigger stores the current time as
\* the key's timestamp.
C27_RetriggerRespectsInterval == [][FrameDedups]_vars

\* a key triggered for the second time in a session, more than the interval
\* after its first trigger
C27_Witness ==
    /\ lastOp.name = "frame"
    /\ \E j \in 1..Len(emitted) :
          /\ emitted[j].again
          /\ lastTriggerTimeRef[TriggerKey(emitted[j])] = now
          /\ now > 100

\* C28: the minimum re-trigger interval never increases when the RPM increases
\* with the polygon count fixed, and never increases when the number of
\* polygons decreases with the RPM fixed
NotLonger(a, b) == a.num * b.den <= b.num * a.den

C28_IntervalMonotone ==
    fnOut.variant # "" =>
        /\ (fnIn.rpm2 >= fnIn.rpm /\ fnIn.count2 = fnIn.count)
              => NotLonger(fnOut.second, fnOut.first)
        /\ (fnIn.count2 <= fnIn.count /\ fnIn.rpm2 = fnIn.rpm)
              => NotLonger(fnOut.second, fnOut.first)

\* C29: for every RPM of the controls and every polygon count the minimum
\* re-trigger interval is strictly shorter than one revolution, 60/RPM seconds
C29_IntervalBelowRevolution ==
    fnOut.variant # "" => fnOut.first.num * fnIn.rpm < 60000 * fnOut.first.den

\* C30: within one frame the triggers are submitted in polygon-list order and,
\* inside one polygon, in increasing vertex-index order: the submitted sequence
\* can be laid along the polygon list without ever stepping back
InListOrder(seq, polys) ==
    \E f \in [1..Len(seq) -> 1..Len(polys)] :
        /\ \A j \in 1..Len(seq) : polys[f[j]].id = seq[j].polygonId
        /\ \A j \in 1..Len(seq), k \in 1..Len(seq) :
              j < k => \/ f[j] < f[k]
                       \/ f[j] = f[k] /\ seq[j].vertex < seq[k].vertex

C30_TriggersInListOrder ==
    (lastOp.name = "frame" /\ emitted # <<>>) => InListOrder(emitted, polygons)

\* a frame that triggered two vertices of one polygon and a vertex of a later one
C30_Witness ==
    /\ lastOp.name = "frame"
    /\ \E j \in 1..Len(emitted), k \in 1..Len(emitted), m \in 1..Len(emitted) :
          /\ j < k /\ k < m
          /\ emitted[j].polygonId = emitted[k].polygonId
          /\ emitted[k].polygonId # emitted[m].polygonId

\* C31: no voice is triggered for a vertex of a polygon whose active flag is
\* false nor for a vertex without a pitch, and a frame changes the last-trigger
\* map only at the keys of the voices it triggered
PitchedActive(polygonId, vertex, note) ==
    \E p \in 1..Len(polygons) :
        /\ polygons[p].id = polygonId
        /\ polygons[p].active
        /\ vertex < polygons[p].sides
        /\ NoteAtVertex(polygons[p], vertex) # Null

FrameGates ==
    lastOp'.name \in FrameOps =>
        /\ \A j \in 1..Len(emitted') :
              PitchedActive(emitted'[j].polygonId, emitted'[j].vertex, emitted'[j].note)
        /\ \A k \in DOMAIN lastTriggerTimeRef' :
              \/ k \in DOMAIN lastTriggerTimeRef
                    /\ lastTriggerTimeRef'[k] = lastTriggerTimeRef[k]
              \/ \E j \in 1..Len(emitted') : k = TriggerKey(emitted'[j])
        /\ DOMAIN lastTriggerTimeRef \subseteq DOMAIN lastTriggerTimeRef'

C31_OnlyPitchedActiveVerticesTrigger == [][FrameGates]_vars

\* The value of an AudioParam at time t under a list of automation events
\* with non-decreasing times, as the fraction num / den: a linear ramp runs
\* from the time and value of the event before it to its own time and value;
\* after the last event at or before t with no ramp pending the value is held
LastEventAt(ev, t) ==
    CHOOSE k \in 1..Len(ev) :
        /\ ev[k].time <= t
        /\ \A m \in 1..Len(ev) : ev[m].time <= t => m <= k

GainAt(ev, t) ==
    LET k == LastEventAt(ev, t)
    IN  IF k < Len(ev) /\ ev[k + 1].op = "linearRampToValueAtTime"
        THEN [num |-> ev[k].value * (ev[k + 1].time - ev[k].time)
                        + (ev[k + 1].value - ev[k].value) * (t - ev[k].time),
              den |-> ev[k + 1].time - ev[k].time]
        ELSE [num |-> ev[k].value, den |-> 1]

GainIs(ev, t, value) == GainAt(ev, t).num = value * GainAt(ev, t).den

EnvelopeFits == fnOut.attack + fnOut.decay + fnOut.release <= fnIn.duration

\* C32: when attack + decay + release fits inside the duration the gain of a
\* voice started at T is 0 at T, the peak volume at T+attack, peak x sustain at
\* T+attack+decay, still peak x sustain when release begins at
\* T+duration-release, and 0 at T+duration
C32_EnvelopeSchedule ==
    (fnOut.method # "" /\ EnvelopeFits) =>
        LET ev    == fnOut.events
            T     == fnIn.T
            level == (fnOut.volume * fnOut.sustain) \div 100
        IN  /\ GainIs(ev, T, 0)
            /\ GainIs(ev, T + fnOut.attack, fnOut.volume)
            /\ GainIs(ev, T + fnOut.attack + fnOut.decay, level)
            /\ GainIs(ev, T + fnIn.duration - fnOut.release, level)
            /\ GainIs(ev, T + fnIn.duration, 0)

\* C33: the oscillator of every voice is started at the voice's start time T
\* and its scheduled stop time is strictly later than the time of every gain
\* event scheduled for that voice
C33_StopAfterEnvelope ==
    \A id \in DOMAIN audioGraph :
        LET v == audioGraph[id]
        IN  /\ v.startAt = v.T
            /\ \A i \in 1..Len(v.events) : v.events[i].time < v.stopAt

\* C34: updatePolygonSides(id, n) with 3 <= n <= 12 sets the side count of the
\* polygon to n, keeps notes[i] for every i below min(old side count, n), makes
\* every new index from the old side count to n-1 empty and leaves the other
\* polygons unchanged; with n < 3 or n > 12 it changes nothing (side counts in
\* tenths)
MinOf(a, b) == IF a < b THEN a ELSE b

ResizedAsClaimed(old, new, n) ==
    /\ Tenths(new) = n
    /\ \A i \in 0..12 :
          /\ (i * 10 < MinOf(Tenths(old), n) /\ i < Len(old.notes))
                => (i < Len(new.notes) /\ new.notes[i + 1] = old.notes[i + 1])
          /\ (Tenths(old) <= i * 10 /\ i * 10 <= n - 10)
                => (i < Len(new.notes) /\ new.notes[i + 1] = Null)

SidesUpdate ==
    lastOp'.name = "updatePolygonSides" =>
        LET n  == lastOp'.call.newSides
            id == lastOp'.call.polygonId
        IN  IF n < 30 \/ n > 120
            THEN polygons' = polygons /\ selectedPolygon' = selectedPolygon
            ELSE /\ Len(polygons') = Len(polygons)
                 /\ \A p \in 1..Len(polygons) :
                       IF polygons[p].id = id
                       THEN ResizedAsClaimed(polygons[p], polygons'[p], n)
                       ELSE polygons'[p] = polygons[p]

C34_SidesUpdateResizesNotes == [][SidesUpdate]_vars

\* C35: editing vertex i of an N-sided polygon jumps the playhead to
\* (i*360/N - 5) mod 360, five degrees before the vertex angle i*360/N that the
\* scheduler tests (millidegrees, side counts in tenths)
CycleOps == {"cycleNote", "cycleNote_v1", "cycleNote_v2"}

FiveBefore(i, sides) == (((i * 3600000) \div sides) + 355000) % 360000

JumpLandsBeforeVertex ==
    lastOp'.name \in CycleOps =>
        \E p \in 1..Len(polygons) : \E i \in 0..12 :
            /\ NoteAtVertex(polygons'[p], i) # NoteAtVertex(polygons[p], i)
            /\ playhead'.angle = FiveBefore(i, Tenths(polygons[p]))

C35_JumpFiveDegreesBeforeVertex == [][JumpLandsBeforeVertex]_vars

\* C36: while playback stays on with a positive RPM and frames keep arriving,
\* elapsed time is measured from one session start that frames do not reset,
\* the playhead angle advances round the circle and every pitched vertex of
\* every active polygon is eventually triggered (followed for MaxTime ms, one
\* revolution at the slider's minimum of 30 RPM)
FrameKeepsSessionStart ==
    (lastOp'.name \in FrameOps /\ session # <<>> /\ session' # <<>>)
        => session'[1].startTime = session[1].startTime

AllPitchedTriggered ==
    \A p \in 1..Len(polygons) : \A i \in 0..(polygons[p].sides - 1) :
        (polygons[p].active /\ NoteAtVertex(polygons[p], i) # Null)
            => NoteKey(polygons[p], i, NoteAtVertex(polygons[p], i))
                  \in DOMAIN lastTriggerTimeRef

\* Play has just been pressed
PlaybackStarted ==
    lastOp.name \in {"togglePlay", "togglePlay_v1"} /\ playhead.isPlaying /\ rpmRef >= 30

C36_PlaybackAdvances ==
    /\ [][FrameKeepsSessionStart]_vars
    /\ PlaybackStarted ~> (~playhead.isPlaying \/ playhead.angle >= 180000)
    /\ PlaybackStarted ~> (~playhead.isPlaying \/ AllPitchedTriggered)

\* C37: while the cooldown of the most recent manual jump is running the
\* manual-jump flag is still raised, also when the timer of an earlier jump has
\* fired in between
C37_FlagHeldUntilLastCooldown == InCooldown(now) => isManualJumpRef

\* C38: a frame evaluates triggers against the current polygon data: every
\* voice it triggers carries the pitch the vertex has now, and every vertex of
\* an active polygon that has a pitch now, was never triggered with it and is
\* detected by this frame is triggered
DetectedBy(name, i, sides) ==
    IF name = "animate_v1"
    THEN NearVertex(playhead'.angle, i, sides)
    ELSE crossedVertex(session[1].lastAngle, playhead'.angle, i, sides)

FrameUsesCurrentData ==
    lastOp'.name \in {"frame", "animate_v1"} =>
        /\ \A j \in 1..Len(emitted') :
              \E p \in 1..Len(polygons) :
                  /\ polygons[p].id = emitted'[j].polygonId
                  /\ NoteAtVertex(polygons[p], emitted'[j].vertex) = emitted'[j].note
        /\ \A p \in 1..Len(polygons) : \A i \in 0..(polygons[p].sides - 1) :
              LET note == NoteAtVertex(polygons[p], i)
              IN  ( /\ polygons[p].active
                    /\ note # Null
                    /\ NoteKey(polygons[p], i, note) \notin DOMAIN lastTriggerTimeRef
                    /\ DetectedBy(lastOp'.name, i, polygons[p].sides) )
                  => \E j \in 1..Len(emitted') :
                        /\ emitted'[j].polygonId = polygons[p].id
                        /\ emitted'[j].vertex = i
                        /\ emitted'[j].note = note

C38_FramesUseCurrentPolygons == [][FrameUsesCurrentData]_vars

\* C39: once the notes of every polygon have been remapped to the current
\* scale the remap effect causes no further polygon state update
Remapped ==
    /\ updatePolygonNotesForNewScale(polygons, selectedPolygon, selectedScale,
                                     rootNote).updatedPolygons = polygons
    /\ lastOp.name = "remapEffect"

NoUpdateOnceRemapped == Remapped => lastOp'.name # "remapEffect"

C39_RemapSettles == [][NoUpdateOnceRemapped]_vars

\* C40: cycleNote stores at one vertex of one polygon the degree of the
\* current scale that follows the vertex's pitch (the first degree after the
\* last one, for an empty vertex and for a pitch outside the scale) and
\* changes no other vertex and no other polygon
FollowingDegree(note) ==
    LET scale == getScaleNotes(selectedScale, rootNote)
    IN  IF \E k \in 1..Len(scale) : scale[k] = note
        THEN LET k == CHOOSE k \in 1..Len(scale) : scale[k] = note
             IN  scale[(k % Len(scale)) + 1]
        ELSE scale[1]

OneVertexCycled(p, i) ==
    polygons' = [polygons EXCEPT ![p].notes[i] = FollowingDegree(polygons[p].notes[i])]

CycleStoresFollowingDegree ==
    lastOp'.name \in CycleOps =>
        \E p \in 1..Len(polygons) : \E i \in 1..Len(polygons[p].notes) :
            OneVertexCycled(p, i)

C40_CycleNoteStoresNextDegree == [][CycleStoresFollowingDegree]_vars

====
